---- MODULE Spec2Model ----
(***************************************************************************)
(* A model of the rkojob scheduler: JobRunnerImpl (runner.py) driving a   *)
(* JobContextImpl and its JobScopeStatuses listener (context.py) over a   *)
(* tree of scopes.                                                         *)
(*                                                                         *)
(* The recursion of _run_scope is unfolded into a stack of frames; every  *)
(* step of the runner is one action.  `events` is the ordered list of     *)
(* what the run did that an outside observer (a status listener, the      *)
(* callables of the scopes) sees.                                          *)
(***************************************************************************)
EXTENDS Integers, Sequences, FiniteSets, TLC

VARIABLES
    job,          \* the scope tree handed to run: [root, scopes]
    frames,       \* the call stack of _run_scope, outermost first
    state_stack,  \* JobContextImpl._state_stack (scope of each state)
    scope_stack,  \* JobScopeStatuses._scope_stack
    statuses,     \* JobScopeStatuses._statuses (absent key = "UNKNOWN")
    errors,       \* JobScopeStatuses._errors, in insertion order
    events,       \* what the run did, in order
    raised,       \* the exception propagating out of _run_scope, 0 = none
    outcome,      \* how run ended: "running", "returned", "aggregate", "fatal"
    message,      \* the errors joined in the exception run raised
    nextErr,      \* identity of the next exception object
    listeners,    \* the listeners added to a JobStatusCollector, in order
    delivered,    \* the listener calls a collector made, in order
    calls,        \* the collector calls made: [ev, escaped]
    values,       \* Values._values of the context: key -> value
    resolved,     \* the last call made on the value functions, and its result
    delegate,     \* a Delegate: [callbacks, reverse, continue_on_error]
    operations,   \* the add_callback / remove_callback calls made on it
    invocation,   \* the last invocation of it, and how it ended
    builder,      \* a JobBuilder and the JobStageBuilder / JobStep being built
    blocks        \* the stage and step blocks opened on it, and how each exited

vars == <<job, frames, state_stack, scope_stack, statuses, errors, events,
          raised, outcome, message, nextErr, listeners, delivered, calls,
          values, resolved, delegate, operations, invocation, builder,
          blocks>>

\* the collector whose fan-out is observed (left alone by the runner, which
\* runs with the status tracker as the listener that matters)
collector == <<listeners, delivered, calls>>

\* the value store and the value functions called on it (not used by the
\* callables of the trees that are run)
resolver == <<values, resolved>>

\* a Delegate that is built, changed and invoked on its own
delegates == <<delegate, operations, invocation>>

\* a JobBuilder in use
builders == <<builder, blocks>>

\* everything that is neither the runner's nor the collector's
components == <<resolver, delegates, builders>>

----------------------------------------------------------------------------
(* Bounds *)

\* at most this many action invocations raise in one run
MaxActionFailures == 1
\* at most this many teardown invocations raise in one run
MaxTeardownFailures == 1
\* at most this many scopes of a tree carry an explicit run_if / skip_if
MaxConditioned == 1
\* at most this many with blocks are open at once when the context is driven
\* directly
MaxOpen == 2
\* the exceptions a caller of the context raises or records are numbered up
\* to this
MaxRaised == 3
\* at most this many listeners are added to a collector
MaxListeners == 3
\* at most this many calls are made on a collector
MaxCalls == 1
\* at most this many scopes are open when a context value is read
MaxDepth == 3
\* at most this many callbacks are known to a Delegate
MaxCallbacks == 3
\* at most this many add_callback / remove_callback calls are made on it
MaxOperations == 3
\* at most this many stage and step blocks are opened on a builder
MaxBlocks == 4

None == 0

----------------------------------------------------------------------------
(* Scopes *)

\* A JobStep: action, teardown, run_if, skip_if attributes (job.py).
JobStep ==
    [type |-> "Step", attrs |-> {"action", "teardown", "run_if", "skip_if"},
     scopes |-> <<>>, action |-> "callable", teardown |-> "callable",
     run_if |-> "None", skip_if |-> "None"]

\* A JobStage: only the `scopes` attribute (job.py).
JobStage(children) ==
    [type |-> "Stage", attrs |-> {"scopes"},
     scopes |-> children, action |-> "None", teardown |-> "None",
     run_if |-> "None", skip_if |-> "None"]

\* A Job: only the `scopes` attribute (job.py).
Job(children) ==
    [type |-> "Job", attrs |-> {"scopes"},
     scopes |-> children, action |-> "None", teardown |-> "None",
     run_if |-> "None", skip_if |-> "None"]

\* A scope that only has a teardown (JobTeardownScope, not conditional).
TeardownOnlyScope ==
    [type |-> "Step", attrs |-> {"teardown"},
     scopes |-> <<>>, action |-> "None", teardown |-> "callable",
     run_if |-> "None", skip_if |-> "None"]

\* An action scope that has no teardown attribute.
ActionOnlyScope ==
    [type |-> "Step", attrs |-> {"action", "run_if", "skip_if"},
     scopes |-> <<>>, action |-> "callable", teardown |-> "None",
     run_if |-> "None", skip_if |-> "None"]

\* A group that also has run_if and skip_if attributes.
ConditionalGroupScope(children) ==
    [type |-> "Stage", attrs |-> {"scopes", "run_if", "skip_if"},
     scopes |-> children, action |-> "None", teardown |-> "None",
     run_if |-> "None", skip_if |-> "None"]

\* A scope with name and type only (test_bad_scope's StubScope).
StubScope ==
    [type |-> "scope-type", attrs |-> {},
     scopes |-> <<>>, action |-> "None", teardown |-> "None",
     run_if |-> "None", skip_if |-> "None"]

\* job -> [stage -> [step, stage -> [step]], step]
NestedJob ==
    [name |-> "nested", root |-> 1,
     scopes |-> <<Job(<<2, 6>>), JobStage(<<3, 4>>), JobStep,
                  JobStage(<<5>>), JobStep, JobStep>>]

\* root -> [action-only, conditional group -> [teardown-only, unknown], step]
MixedJob ==
    [name |-> "mixed", root |-> 1,
     scopes |-> <<Job(<<2, 3, 6>>), ActionOnlyScope,
                  ConditionalGroupScope(<<4, 5>>), TeardownOnlyScope, StubScope,
                  JobStep>>]

\* The job of test_runner.py: 3 stages of 2 steps.
ThreeStageJob ==
    [name |-> "three stages", root |-> 1,
     scopes |-> <<Job(<<2, 5, 8>>),
                  JobStage(<<3, 4>>), JobStep, JobStep,
                  JobStage(<<6, 7>>), JobStep, JobStep,
                  JobStage(<<9, 10>>), JobStep, JobStep>>]

Jobs == {NestedJob, MixedJob, ThreeStageJob}

\* the trees that are also run with explicit conditions on their scopes
ConditionedJobs == {MixedJob}

ScopeIds == DOMAIN job.scopes
Scope(s) == job.scopes[s]

\* isinstance(scope, JobGroupScope): the protocol's members are present.
IsGroupScope(sc) == "scopes" \in sc.attrs
\* isinstance(scope, JobConditionalScope)
IsConditionalScope(sc) == {"run_if", "skip_if"} \subseteq sc.attrs
\* isinstance(scope, JobActionScope): JobScope + JobConditionalScope + action
IsActionScope(sc) == "action" \in sc.attrs /\ IsConditionalScope(sc)
\* isinstance(scope, JobTeardownScope)
IsTeardownScope(sc) == "teardown" \in sc.attrs

----------------------------------------------------------------------------
(* JobScopeStatuses (context.py) *)

\* `x in seq`
InSeq(x, seq) == \E k \in DOMAIN seq : seq[k] = x

RECURSIVE GetErrorsOwnFrom(_, _, _)
\* get_errors that only takes the paths ending in scope
GetErrorsOwnFrom(errs, scope, k) ==
    IF k > Len(errs) THEN <<>>
    ELSE (IF scope = None
             \/ (errs[k].path # <<>> /\ errs[k].path[Len(errs[k].path)] = scope)
          THEN errs[k].errs ELSE <<>>) \o GetErrorsOwnFrom(errs, scope, k + 1)

RECURSIVE GetErrorsLastPathFirstFrom(_, _, _)
\* get_errors that takes the paths in the reverse of their insertion order
GetErrorsLastPathFirstFrom(errs, scope, k) ==
    IF k > Len(errs) THEN <<>>
    ELSE GetErrorsLastPathFirstFrom(errs, scope, k + 1)
            \o (IF scope = None \/ InSeq(scope, errs[k].path)
                THEN errs[k].errs ELSE <<>>)

RECURSIVE GetErrorsFrom(_, _, _)
GetErrorsFrom(errs, scope, k) ==
    IF k > Len(errs) THEN <<>>
    ELSE (IF scope = None \/ InSeq(scope, errs[k].path)
          THEN errs[k].errs ELSE <<>>) \o GetErrorsFrom(errs, scope, k + 1)

\* get_errors(scope): the lists of every path that contains scope, in
\* insertion order of the paths; every list when scope is None.
GetErrors(errs, scope) == GetErrorsFrom(errs, scope, 1)

\* get_status(scope)
GetStatus(st, scope) == st[scope]

\* error(error): append under the current path, mark the innermost FAILING.
StatusErrorNoFailing(errs, st, stack, e) ==
    [errors |-> IF \E k \in DOMAIN errs : errs[k].path = stack
                THEN [k \in DOMAIN errs |->
                        IF errs[k].path = stack
                        THEN [errs[k] EXCEPT !.errs = Append(@, e)]
                        ELSE errs[k]]
                ELSE Append(errs, [path |-> stack, errs |-> <<e>>]),
     statuses |-> st]

\* error(error) that marks every scope of the current path FAILING
StatusErrorMarksPath(errs, st, stack, e) ==
    [errors |-> IF \E k \in DOMAIN errs : errs[k].path = stack
                THEN [k \in DOMAIN errs |->
                        IF errs[k].path = stack
                        THEN [errs[k] EXCEPT !.errs = Append(@, e)]
                        ELSE errs[k]]
                ELSE Append(errs, [path |-> stack, errs |-> <<e>>]),
     statuses |-> [x \in DOMAIN st |->
                     IF \E n \in DOMAIN stack : stack[n] = x THEN "FAILING" ELSE st[x]]]

StatusError(errs, st, stack, e) ==
    [errors |-> IF \E k \in DOMAIN errs : errs[k].path = stack
                THEN [k \in DOMAIN errs |->
                        IF errs[k].path = stack
                        THEN [errs[k] EXCEPT !.errs = Append(@, e)]
                        ELSE errs[k]]
                ELSE Append(errs, [path |-> stack, errs |-> <<e>>]),
     statuses |-> IF stack # <<>>
                  THEN [st EXCEPT ![stack[Len(stack)]] = "FAILING"]
                  ELSE st]

\* skip_scope that also marks the scope around the skipped one FAILING
SkipScopeFailingParent(st, scope) ==
    [x \in DOMAIN st |->
        IF x = scope THEN "SKIPPED"
        ELSE IF scope_stack # <<>> /\ x = scope_stack[Len(scope_stack)] THEN "FAILING"
        ELSE st[x]]

\* skip_scope(scope)
SkipScope(st, scope) == [st EXCEPT ![scope] = "SKIPPED"]

\* start_scope(scope), for a scope whose status is UNKNOWN
StartScope(st, scope) == [st EXCEPT ![scope] = "RUNNING"]

\* finish_scope that only looks at the errors recorded by the scope itself
FinishStatusOwnErrors(errs, scope) ==
    IF \E k \in DOMAIN errs :
          errs[k].path # <<>> /\ errs[k].path[Len(errs[k].path)] = scope
    THEN "FAILED" ELSE "PASSED"

\* finish_scope that leaves a scope with errors FAILING
FinishStatusStaysFailing(errs, scope) ==
    IF \E k \in DOMAIN errs : errs[k].errs # <<>> /\ InSeq(scope, errs[k].path)
    THEN "FAILING" ELSE "PASSED"

\* finish_scope(scope): the status the popped scope gets
FinishStatus(errs, scope) ==
    IF GetErrors(errs, scope) # <<>> THEN "FAILED" ELSE "PASSED"

----------------------------------------------------------------------------
(* What the run did *)

Ev(ev, scope, under, err, val, reason) ==
    [ev |-> ev, scope |-> scope, under |-> under, err |-> err,
     val |-> val, reason |-> reason]

\* number of invocations of the given kind that raised
Failures(kind) ==
    Cardinality({k \in DOMAIN events : events[k].ev = kind /\ events[k].err # 0})

----------------------------------------------------------------------------
(* Conditions (runner.py, __init__.py) *)

\* what a condition callable returns: _JobScopeCondition returns a pair
CallResult(b, reason) == [tuple |-> TRUE, b |-> b, reason |-> reason]

RunIfResults == {CallResult(b, "run_if reason") : b \in BOOLEAN}
SkipIfResults == {CallResult(b, "skip_if reason") : b \in BOOLEAN}

\* job_succeeding(context), used where job_failing is meant
job_succeeding(errs) == CallResult(~(GetErrors(errs, None) # <<>>), "Job is succeeding.")

\* job_failing(context)
job_failing(errs) == CallResult(GetErrors(errs, None) # <<>>, "Job has failures.")

\* job_always(context), used where job_never is meant
job_always == CallResult(TRUE, "Always")

\* job_never(context)
job_never == CallResult(FALSE, "Never")

\* resolve_value(conditional, context=context): a literal is returned as it
\* is, a callable is called.
ResolveValue(cond, called) ==
    CASE cond = "True" -> [tuple |-> FALSE, b |-> TRUE, reason |-> "no reason"]
      [] cond = "False" -> [tuple |-> FALSE, b |-> FALSE, reason |-> "no reason"]
      [] cond = "callable" -> called

\* _resolve_conditional: a tuple as it is, anything else as (bool(value), "")
ResolveConditional(cond, called) ==
    LET value == ResolveValue(cond, called)
    IN  IF value.tuple THEN <<value.b, value.reason>> ELSE <<value.b, "">>

\* the conditions a decision evaluated, as events
Evaluated(s, name, r) == Ev(name, s, 0, 0, r[1], r[2])

\* _should_skip that, with both conditions set, forgets the skip condition
ShouldSkipRunIfOnly(s, rv, sv, errs) ==
    LET sc == Scope(s)
    IN  IF IsConditionalScope(sc)
        THEN IF sc.skip_if = "None" /\ sc.run_if = "None"
             THEN LET r == ResolveConditional("callable", job_failing(errs))
                  IN  [skip |-> r[1], reason |-> r[2],
                       evals |-> <<Evaluated(s, "job_failing", r)>>]
             ELSE IF sc.run_if = "None"
             THEN LET r == ResolveConditional(sc.skip_if, sv)
                  IN  [skip |-> r[1], reason |-> r[2],
                       evals |-> <<Evaluated(s, "skip_if", r)>>]
             ELSE LET r == ResolveConditional(sc.run_if, rv)
                  IN  [skip |-> ~r[1], reason |-> r[2],
                       evals |-> <<Evaluated(s, "run_if", r)>>]
        ELSE LET r == ResolveConditional("callable", job_never)
             IN  [skip |-> r[1], reason |-> r[2],
                  evals |-> <<Evaluated(s, "job_never", r)>>]

\* _should_skip that, with both conditions set, always consults skip_if
ShouldSkipBothEvaluated(s, rv, sv, errs) ==
    LET sc == Scope(s)
    IN  IF IsConditionalScope(sc)
        THEN IF sc.skip_if = "None" /\ sc.run_if = "None"
             THEN LET r == ResolveConditional("callable", job_failing(errs))
                  IN  [skip |-> r[1], reason |-> r[2],
                       evals |-> <<Evaluated(s, "job_failing", r)>>]
             ELSE IF sc.run_if = "None"
             THEN LET r == ResolveConditional(sc.skip_if, sv)
                  IN  [skip |-> r[1], reason |-> r[2],
                       evals |-> <<Evaluated(s, "skip_if", r)>>]
             ELSE LET r == ResolveConditional(sc.run_if, rv)
                  IN  IF sc.skip_if = "None"
                      THEN [skip |-> ~r[1], reason |-> r[2],
                            evals |-> <<Evaluated(s, "run_if", r)>>]
                      ELSE LET q == ResolveConditional(sc.skip_if, sv)
                           IN  [skip |-> ~r[1] \/ q[1],
                                reason |-> IF ~r[1] THEN r[2] ELSE q[2],
                                evals |-> <<Evaluated(s, "run_if", r),
                                            Evaluated(s, "skip_if", q)>>]
        ELSE LET r == ResolveConditional("callable", job_never)
             IN  [skip |-> r[1], reason |-> r[2],
                  evals |-> <<Evaluated(s, "job_never", r)>>]

\* _should_skip that applies the default condition to every Conditional
\* scope before it looks at the scope's own conditions
ShouldSkipDefaultFirst(s, rv, sv, errs) ==
    LET sc == Scope(s)
        d == ResolveConditional("callable", job_failing(errs))
    IN  IF IsConditionalScope(sc)
        THEN IF d[1] \/ (sc.skip_if = "None" /\ sc.run_if = "None")
             THEN [skip |-> d[1], reason |-> d[2],
                   evals |-> <<Evaluated(s, "job_failing", d)>>]
             ELSE IF sc.run_if = "None"
             THEN LET r == ResolveConditional(sc.skip_if, sv)
                  IN  [skip |-> r[1], reason |-> r[2],
                       evals |-> <<Evaluated(s, "skip_if", r)>>]
             ELSE LET r == ResolveConditional(sc.run_if, rv)
                  IN  IF ~r[1] \/ sc.skip_if = "None"
                      THEN [skip |-> ~r[1], reason |-> r[2],
                            evals |-> <<Evaluated(s, "run_if", r)>>]
                      ELSE LET q == ResolveConditional(sc.skip_if, sv)
                           IN  [skip |-> q[1], reason |-> q[2],
                                evals |-> <<Evaluated(s, "run_if", r),
                                            Evaluated(s, "skip_if", q)>>]
        ELSE LET r == ResolveConditional("callable", job_never)
             IN  [skip |-> r[1], reason |-> r[2],
                  evals |-> <<Evaluated(s, "job_never", r)>>]

\* _should_skip: [skip, reason, evals]
ShouldSkip(s, rv, sv, errs) ==
    LET sc == Scope(s)
    IN  IF IsConditionalScope(sc)
        THEN IF sc.skip_if = "None" /\ sc.run_if = "None"
             THEN LET r == ResolveConditional("callable", job_failing(errs))
                  IN  [skip |-> r[1], reason |-> r[2],
                       evals |-> <<Evaluated(s, "job_failing", r)>>]
             ELSE IF sc.run_if = "None"
             THEN LET r == ResolveConditional(sc.skip_if, sv)
                  IN  [skip |-> r[1], reason |-> r[2],
                       evals |-> <<Evaluated(s, "skip_if", r)>>]
             ELSE LET r == ResolveConditional(sc.run_if, rv)
                  IN  IF ~r[1] \/ sc.skip_if = "None"
                      THEN [skip |-> ~r[1], reason |-> r[2],
                            evals |-> <<Evaluated(s, "run_if", r)>>]
                      ELSE LET q == ResolveConditional(sc.skip_if, sv)
                           IN  [skip |-> q[1], reason |-> q[2],
                                evals |-> <<Evaluated(s, "run_if", r),
                                            Evaluated(s, "skip_if", q)>>]
        ELSE LET r == ResolveConditional("callable", job_never)
             IN  [skip |-> r[1], reason |-> r[2],
                  evals |-> <<Evaluated(s, "job_never", r)>>]

----------------------------------------------------------------------------
(* Teardown (runner.py) *)

Reversed(seq) == [k \in DOMAIN seq |-> seq[Len(seq) + 1 - k]]

RECURSIVE GroupTeardownFrom(_, _)
GroupTeardownFrom(g, k) ==
    IF k = 0 THEN <<>>
    ELSE LET child == Scope(g).scopes[k]
         IN  (IF IsGroupScope(Scope(child))
              THEN GroupTeardownFrom(child, Len(Scope(child).scopes))
              ELSE IF IsTeardownScope(Scope(child)) THEN <<child>> ELSE <<>>)
             \o GroupTeardownFrom(g, k - 1)

RECURSIVE GroupTeardownForwardFrom(_, _)
GroupTeardownForwardFrom(g, k) ==
    IF k > Len(Scope(g).scopes) THEN <<>>
    ELSE LET child == Scope(g).scopes[k]
         IN  (IF IsGroupScope(Scope(child))
              THEN GroupTeardownForwardFrom(child, 1)
              ELSE IF IsTeardownScope(Scope(child)) THEN <<child>> ELSE <<>>)
             \o GroupTeardownForwardFrom(g, k + 1)

\* _run_group_teardown that walks the children in declaration order
RunGroupTeardownForward(g) == GroupTeardownForwardFrom(g, 1)

\* _run_group_teardown that does not descend into child groups
RunGroupTeardownChildrenOnly(g) ==
    LET children == Reversed(Scope(g).scopes)
    IN  SelectSeq(children, LAMBDA c : /\ ~IsGroupScope(Scope(c))
                                       /\ IsTeardownScope(Scope(c)))

\* _run_group_teardown: the scopes _run_teardown is called for, in order
RunGroupTeardown(g) == GroupTeardownFrom(g, Len(Scope(g).scopes))

\* the guard of _run_teardown that only looks for SKIPPED
TeardownSkippedOnly(status) == status = "SKIPPED"

\* the guard of _run_teardown that only looks for UNKNOWN
TeardownUnknownOnly(status) == status = "UNKNOWN"

\* the guard of _run_teardown: skipped or never run
TeardownSkipped(status) == status \in {"UNKNOWN", "SKIPPED"}

\* a finally block that also looks at the teardown of a group itself
TeardownPassGroupToo(s) ==
    (IF IsGroupScope(Scope(s)) THEN RunGroupTeardown(s) ELSE <<>>)
        \o (IF IsTeardownScope(Scope(s)) THEN <<s>> ELSE <<>>)

\* the finally block of _run_scope: whose teardown is looked at
TeardownPass(s) ==
    IF IsGroupScope(Scope(s)) THEN RunGroupTeardown(s)
    ELSE IF IsTeardownScope(Scope(s)) THEN <<s>>
    ELSE <<>>

----------------------------------------------------------------------------
(* The runner (runner.py) *)

Top == frames[Len(frames)]
Pop == SubSeq(frames, 1, Len(frames) - 1)
SetTop(f) == [frames EXCEPT ![Len(frames)] = f]
Frame(s) == [scope |-> s, pc |-> "start", i |-> 1, todo |-> <<>>]

\* the capability check that lets every scope through
HasCapabilityAlways(sc) == TRUE

HasCapability(sc) == IsGroupScope(sc) \/ IsActionScope(sc) \/ IsTeardownScope(sc)

\* _run_scope, lines 40-44: a scope of no known kind
RunScopeUnknown ==
    /\ UNCHANGED <<collector, components>>
    /\ frames # <<>> /\ raised = 0 /\ Top.pc = "start"
    /\ ~HasCapability(Scope(Top.scope))
    /\ raised' = nextErr
    /\ nextErr' = nextErr + 1
    /\ events' = Append(events, Ev("unknown_scope", Top.scope, 0, nextErr, FALSE, ""))
    /\ frames' = Pop
    /\ UNCHANGED <<job, state_stack, scope_stack, statuses, errors, outcome, message>>

\* _run_scope, lines 46-51: the scope is skipped
RunScopeSkip ==
    /\ UNCHANGED <<collector, components>>
    /\ frames # <<>> /\ raised = 0 /\ Top.pc = "start"
    /\ HasCapability(Scope(Top.scope))
    /\ \E rv \in RunIfResults, sv \in SkipIfResults :
         LET d == ShouldSkip(Top.scope, rv, sv, errors)
         IN  /\ d.skip
             /\ events' = events \o d.evals
                    \o <<Ev("skip_scope", Top.scope, 0, 0, FALSE, d.reason)>>
    /\ statuses' = SkipScope(statuses, Top.scope)
    /\ frames' = Pop
    /\ UNCHANGED <<job, state_stack, scope_stack, errors, raised, outcome, message, nextErr>>

\* the innermost scope of the status tracker, 0 when no scope is open
Innermost == IF scope_stack = <<>> THEN 0 ELSE scope_stack[Len(scope_stack)]

\* The with statement of _run_scope for scope s, up to its body: in_scope
\* pushes a state and status.scope calls start_scope.  start_scope raises
\* for a scope whose status is not UNKNOWN; status.scope then records the
\* exception, its finally clause calls finish_scope(s), which finishes s if
\* s is the innermost open scope and raises otherwise, and in_scope pops
\* the state again.  `before` is what was logged just before.
EnterScope(s, before) ==
    IF GetStatus(statuses, s) = "UNKNOWN"
    THEN /\ state_stack' = Append(state_stack, s)
         /\ scope_stack' = Append(scope_stack, s)
         /\ statuses' = StartScope(statuses, s)
         /\ events' = events \o before \o <<Ev("start_scope", s, 0, 0, FALSE, "")>>
         /\ UNCHANGED <<errors, raised, nextErr>>
    ELSE LET r == StatusError(errors, statuses, scope_stack, nextErr)
             matches == Innermost = s
         IN  /\ errors' = r.errors
             /\ statuses' = IF matches
                            THEN [r.statuses EXCEPT ![s] = FinishStatus(r.errors, s)]
                            ELSE r.statuses
             /\ scope_stack' = IF matches
                               THEN SubSeq(scope_stack, 1, Len(scope_stack) - 1)
                               ELSE scope_stack
             /\ raised' = IF matches THEN nextErr ELSE nextErr + 1
             /\ nextErr' = nextErr + 2
             /\ events' = events \o before \o
                   <<Ev("start_scope_raised", s, 0, nextErr, FALSE,
                        "Scope status already set."),
                     Ev("error", Innermost, 0, nextErr, FALSE, ""),
                     IF matches
                     THEN Ev("finish_scope", s, 0, 0, FALSE, "")
                     ELSE Ev("finish_scope_raised", s, 0, nextErr + 1, FALSE,
                             "Scope does not match scope on stack.")>>
             /\ UNCHANGED state_stack

\* _run_scope, lines 46-53: the scope is not skipped and the with statement
\* is entered
RunScopeEnter ==
    /\ UNCHANGED <<collector, components>>
    /\ frames # <<>> /\ raised = 0 /\ Top.pc = "start"
    /\ HasCapability(Scope(Top.scope))
    /\ \E rv \in RunIfResults, sv \in SkipIfResults :
         LET d == ShouldSkip(Top.scope, rv, sv, errors)
         IN  /\ ~d.skip
             /\ EnterScope(Top.scope, d.evals)
    /\ frames' =
          IF GetStatus(statuses, Top.scope) # "UNKNOWN" THEN Pop
          ELSE SetTop(
             IF IsGroupScope(Scope(Top.scope)) THEN [Top EXCEPT !.pc = "group"]
             ELSE IF IsActionScope(Scope(Top.scope)) THEN [Top EXCEPT !.pc = "action"]
             ELSE [Top EXCEPT !.pc = "teardown", !.todo = TeardownPass(Top.scope)])
    /\ UNCHANGED <<job, outcome, message>>

\* _run_group that walks the children last to first
RunGroupReversed ==
    /\ UNCHANGED <<collector, components>>
    /\ frames # <<>> /\ raised = 0 /\ Top.pc = "group"
    /\ Top.i <= Len(Scope(Top.scope).scopes)
    /\ frames' = Append(SetTop([Top EXCEPT !.i = @ + 1]),
                        Frame(Scope(Top.scope).scopes[
                                  Len(Scope(Top.scope).scopes) + 1 - Top.i]))
    /\ UNCHANGED <<job, state_stack, scope_stack, statuses, errors, events,
                   raised, outcome, message, nextErr>>

\* _run_group that goes back to its first child after the last one
RunGroupRevisits ==
    /\ UNCHANGED <<collector, components>>
    /\ frames # <<>> /\ raised = 0 /\ Top.pc = "group"
    /\ Scope(Top.scope).scopes # <<>>
    /\ Top.i <= Len(Scope(Top.scope).scopes) + 1
    /\ frames' = Append(SetTop([Top EXCEPT !.i = @ + 1]),
                        Frame(Scope(Top.scope).scopes[
                                 IF Top.i > Len(Scope(Top.scope).scopes) THEN 1
                                 ELSE Top.i]))
    /\ UNCHANGED <<job, state_stack, scope_stack, statuses, errors, events,
                   raised, outcome, message, nextErr>>

\* _run_group: the next child
RunGroup ==
    /\ UNCHANGED <<collector, components>>
    /\ frames # <<>> /\ raised = 0 /\ Top.pc = "group"
    /\ Top.i <= Len(Scope(Top.scope).scopes)
    /\ frames' = Append(SetTop([Top EXCEPT !.i = @ + 1]),
                        Frame(Scope(Top.scope).scopes[Top.i]))
    /\ UNCHANGED <<job, state_stack, scope_stack, statuses, errors, events,
                   raised, outcome, message, nextErr>>

\* _run_scope without the finally: an exception that leaves _run_group
\* passes the teardown by
RunGroupDoneNoFinally ==
    /\ UNCHANGED <<collector, components>>
    /\ frames # <<>> /\ Top.pc = "group"
    /\ raised # 0 \/ Top.i > Len(Scope(Top.scope).scopes)
    /\ frames' = SetTop([Top EXCEPT !.pc = "teardown",
                                    !.todo = IF raised # 0 THEN <<>>
                                             ELSE TeardownPass(Top.scope)])
    /\ UNCHANGED <<job, state_stack, scope_stack, statuses, errors, events,
                   raised, outcome, message, nextErr>>

\* _run_group is left (all children done, or a child raised): the finally
\* block of _run_scope starts
RunGroupDone ==
    /\ UNCHANGED <<collector, components>>
    /\ frames # <<>> /\ Top.pc = "group"
    /\ raised # 0 \/ Top.i > Len(Scope(Top.scope).scopes)
    /\ frames' = SetTop([Top EXCEPT !.pc = "teardown", !.todo = TeardownPass(Top.scope)])
    /\ UNCHANGED <<job, state_stack, scope_stack, statuses, errors, events,
                   raised, outcome, message, nextErr>>

\* _run_action whose except clause raises the exception again
RunActionReraise ==
    /\ UNCHANGED <<collector, components>>
    /\ frames # <<>> /\ raised = 0 /\ Top.pc = "action"
    /\ frames' = SetTop([Top EXCEPT !.pc = "teardown", !.todo = TeardownPass(Top.scope)])
    /\ \/ /\ Scope(Top.scope).action = "None"
          /\ UNCHANGED <<events, errors, statuses, nextErr, raised>>
       \/ /\ Scope(Top.scope).action # "None"
          /\ events' = Append(events, Ev("action", Top.scope, 0, 0, FALSE, ""))
          /\ UNCHANGED <<errors, statuses, nextErr, raised>>
       \/ /\ Scope(Top.scope).action # "None"
          /\ Failures("action") < MaxActionFailures
          /\ LET r == StatusError(errors, statuses, scope_stack, nextErr)
             IN  /\ errors' = r.errors
                 /\ statuses' = r.statuses
          /\ events' = events \o <<Ev("action", Top.scope, 0, nextErr, FALSE, ""),
                                   Ev("error", Top.scope, 0, nextErr, FALSE, "")>>
          /\ raised' = nextErr
          /\ nextErr' = nextErr + 1
    /\ UNCHANGED <<job, state_stack, scope_stack, outcome, message>>

\* _run_action: the action returns, or raises and the error is recorded
RunAction ==
    /\ UNCHANGED <<collector, components>>
    /\ frames # <<>> /\ raised = 0 /\ Top.pc = "action"
    /\ frames' = SetTop([Top EXCEPT !.pc = "teardown", !.todo = TeardownPass(Top.scope)])
    /\ \/ /\ Scope(Top.scope).action = "None"
          /\ UNCHANGED <<events, errors, statuses, nextErr>>
       \/ /\ Scope(Top.scope).action # "None"
          /\ events' = Append(events, Ev("action", Top.scope, 0, 0, FALSE, ""))
          /\ UNCHANGED <<errors, statuses, nextErr>>
       \/ /\ Scope(Top.scope).action # "None"
          /\ Failures("action") < MaxActionFailures
          /\ LET r == StatusError(errors, statuses, scope_stack, nextErr)
             IN  /\ errors' = r.errors
                 /\ statuses' = r.statuses
          /\ events' = events \o <<Ev("action", Top.scope, 0, nextErr, FALSE, ""),
                                   Ev("error", Top.scope, 0, nextErr, FALSE, "")>>
          /\ nextErr' = nextErr + 1
       \/ \* the action calls context.add_teardown(target, callback):
          \* JobContextImpl defines no add_teardown, so the call raises
          \* AttributeError inside the action
          /\ Scope(Top.scope).action # "None"
          /\ Failures("action") < MaxActionFailures
          /\ LET r == StatusError(errors, statuses, scope_stack, nextErr)
             IN  /\ errors' = r.errors
                 /\ statuses' = r.statuses
          /\ \E target \in {scope_stack[k] : k \in DOMAIN scope_stack} :
                events' = events \o
                    <<Ev("add_teardown", Top.scope, target, nextErr, FALSE, ""),
                      Ev("action", Top.scope, 0, nextErr, FALSE, ""),
                      Ev("error", Top.scope, 0, nextErr, FALSE, "")>>
          /\ nextErr' = nextErr + 1
    /\ UNCHANGED <<job, state_stack, scope_stack, raised, outcome, message>>

\* _run_teardown that records a teardown exception as an error
RunTeardownRecordsError ==
    /\ UNCHANGED <<collector, components>>
    /\ frames # <<>> /\ Top.pc = "teardown" /\ Top.todo # <<>>
    /\ LET t == Head(Top.todo)
           under == Top.scope
       IN  \/ /\ TeardownSkipped(GetStatus(statuses, t))
              /\ events' = Append(events, Ev("detail", t, under, 0, FALSE, "Skipping Teardown"))
              /\ UNCHANGED <<nextErr, errors, statuses>>
           \/ /\ ~TeardownSkipped(GetStatus(statuses, t))
              /\ Scope(t).teardown = "None"
              /\ UNCHANGED <<events, nextErr, errors, statuses>>
           \/ /\ ~TeardownSkipped(GetStatus(statuses, t))
              /\ Scope(t).teardown # "None"
              /\ events' = events \o
                    <<Ev("start_section", t, under, 0, FALSE, "Teardown"),
                      Ev("teardown", t, under, 0, FALSE, ""),
                      Ev("finish_section", t, under, 0, FALSE, "")>>
              /\ UNCHANGED <<nextErr, errors, statuses>>
           \/ /\ ~TeardownSkipped(GetStatus(statuses, t))
              /\ Scope(t).teardown # "None"
              /\ Failures("teardown") < MaxTeardownFailures
              /\ events' = events \o
                    <<Ev("start_section", t, under, 0, FALSE, "Teardown"),
                      Ev("teardown", t, under, nextErr, FALSE, ""),
                      Ev("error", t, under, nextErr, FALSE, ""),
                      Ev("finish_section", t, under, 0, FALSE, "")>>
              /\ LET r == StatusError(errors, statuses, scope_stack, nextErr)
                 IN  /\ errors' = r.errors
                     /\ statuses' = r.statuses
              /\ nextErr' = nextErr + 1
    /\ frames' = SetTop([Top EXCEPT !.todo = Tail(@)])
    /\ UNCHANGED <<job, state_stack, scope_stack, raised, outcome, message>>

\* _run_teardown for the next scope of the pass
RunTeardown ==
    /\ UNCHANGED <<collector, components>>
    /\ frames # <<>> /\ Top.pc = "teardown" /\ Top.todo # <<>>
    /\ LET t == Head(Top.todo)
           under == Top.scope
       IN  \/ /\ TeardownSkipped(GetStatus(statuses, t))
              /\ events' = Append(events, Ev("detail", t, under, 0, FALSE, "Skipping Teardown"))
              /\ UNCHANGED nextErr
           \/ /\ ~TeardownSkipped(GetStatus(statuses, t))
              /\ Scope(t).teardown = "None"
              /\ UNCHANGED <<events, nextErr>>
           \/ /\ ~TeardownSkipped(GetStatus(statuses, t))
              /\ Scope(t).teardown # "None"
              /\ events' = events \o
                    <<Ev("start_section", t, under, 0, FALSE, "Teardown"),
                      Ev("teardown", t, under, 0, FALSE, ""),
                      Ev("finish_section", t, under, 0, FALSE, "")>>
              /\ UNCHANGED nextErr
           \/ /\ ~TeardownSkipped(GetStatus(statuses, t))
              /\ Scope(t).teardown # "None"
              /\ Failures("teardown") < MaxTeardownFailures
              /\ events' = events \o
                    <<Ev("start_section", t, under, 0, FALSE, "Teardown"),
                      Ev("teardown", t, under, nextErr, FALSE, ""),
                      Ev("warning", t, under, nextErr, FALSE, ""),
                      Ev("finish_section", t, under, 0, FALSE, "")>>
              /\ nextErr' = nextErr + 1
    /\ frames' = SetTop([Top EXCEPT !.todo = Tail(@)])
    /\ UNCHANGED <<job, state_stack, scope_stack, statuses, errors, raised,
                   outcome, message>>

\* the with statement that leaves the state of in_scope behind when an
\* exception passes through it
ExitScopeKeepsStateOnRaise ==
    /\ UNCHANGED <<collector, components>>
    /\ frames # <<>> /\ Top.pc = "teardown" /\ Top.todo = <<>>
    /\ LET r == IF raised # 0
                THEN StatusError(errors, statuses, scope_stack, raised)
                ELSE [errors |-> errors, statuses |-> statuses]
           recorded == IF raised # 0
                       THEN <<Ev("error", Innermost, 0, raised, FALSE, "")>> ELSE <<>>
       IN  IF Innermost = Top.scope
           THEN /\ errors' = r.errors
                /\ statuses' = [r.statuses EXCEPT
                                  ![Top.scope] = FinishStatus(r.errors, Top.scope)]
                /\ events' = events \o recorded
                                \o <<Ev("finish_scope", Top.scope, 0, 0, FALSE, "")>>
                /\ scope_stack' = SubSeq(scope_stack, 1, Len(scope_stack) - 1)
                /\ UNCHANGED <<raised, nextErr>>
           ELSE /\ errors' = r.errors
                /\ statuses' = r.statuses
                /\ events' = events \o recorded
                                \o <<Ev("finish_scope_raised", Top.scope, 0, nextErr,
                                        FALSE, "Scope does not match scope on stack.")>>
                /\ raised' = nextErr
                /\ nextErr' = nextErr + 1
                /\ UNCHANGED scope_stack
    /\ state_stack' = IF raised # 0 THEN state_stack
                      ELSE SubSeq(state_stack, 1, Len(state_stack) - 1)
    /\ frames' = Pop
    /\ UNCHANGED <<job, outcome, message>>

\* the with statement of _run_scope is left: status.scope records a
\* propagating exception and calls finish_scope(scope), which finishes the
\* scope when it is the innermost one of the tracker and raises otherwise;
\* in_scope pops the state
ExitScope ==
    /\ UNCHANGED <<collector, components>>
    /\ frames # <<>> /\ Top.pc = "teardown" /\ Top.todo = <<>>
    /\ LET r == IF raised # 0
                THEN StatusError(errors, statuses, scope_stack, raised)
                ELSE [errors |-> errors, statuses |-> statuses]
           recorded == IF raised # 0
                       THEN <<Ev("error", Innermost, 0, raised, FALSE, "")>> ELSE <<>>
       IN  IF Innermost = Top.scope
           THEN /\ errors' = r.errors
                /\ statuses' = [r.statuses EXCEPT
                                  ![Top.scope] = FinishStatus(r.errors, Top.scope)]
                /\ events' = events \o recorded
                                \o <<Ev("finish_scope", Top.scope, 0, 0, FALSE, "")>>
                /\ scope_stack' = SubSeq(scope_stack, 1, Len(scope_stack) - 1)
                /\ UNCHANGED <<raised, nextErr>>
           ELSE /\ errors' = r.errors
                /\ statuses' = r.statuses
                /\ events' = events \o recorded
                                \o <<Ev("finish_scope_raised", Top.scope, 0, nextErr,
                                        FALSE, "Scope does not match scope on stack.")>>
                /\ raised' = nextErr
                /\ nextErr' = nextErr + 1
                /\ UNCHANGED scope_stack
    /\ state_stack' = SubSeq(state_stack, 1, Len(state_stack) - 1)
    /\ frames' = Pop
    /\ UNCHANGED <<job, outcome, message>>

\* run that never raises the aggregate exception
RunFinishNoRaise ==
    /\ UNCHANGED <<collector, components>>
    /\ frames = <<>> /\ outcome = "running"
    /\ IF raised # 0
       THEN /\ outcome' = "fatal"
            /\ message' = <<raised>>
       ELSE /\ outcome' = "returned"
            /\ message' = <<>>
    /\ UNCHANGED <<job, frames, state_stack, scope_stack, statuses, errors,
                   events, raised, nextErr>>

\* run, lines 31-34, after _run_scope
RunFinish ==
    /\ UNCHANGED <<collector, components>>
    /\ frames = <<>> /\ outcome = "running"
    /\ IF raised # 0
       THEN /\ outcome' = "fatal"
            /\ message' = <<raised>>
       ELSE IF GetErrors(errors, None) # <<>>
       THEN /\ outcome' = "aggregate"
            /\ message' = GetErrors(errors, None)
       ELSE /\ outcome' = "returned"
            /\ message' = <<>>
    /\ UNCHANGED <<job, frames, state_stack, scope_stack, statuses, errors,
                   events, raised, nextErr>>

----------------------------------------------------------------------------
(* Values (values.py), resolve_value and context_value (__init__.py)       *)

\* the objects that are resolved, stored and returned
NoValue == [type |-> "NoValueType"]
PyNone == [type |-> "NoneType"]
Str(text) == [type |-> "str", text |-> text]
ValueKey(name) == [type |-> "ValueKey", name |-> name]
\* ValueRef(value): holds value unless it is NoValue
ValueRef(value) == [type |-> "ValueRef", value |-> value]
\* lambda ctx: ctx.values.get_ref(name).value
Lambda(name) == [type |-> "function", name |-> name]

\* isinstance(value, ValueKey)
IsValueKey(value) == value.type = "ValueKey"
\* isinstance(value, ValueProvider): the object has get and has_value
IsValueProvider(value) == value.type = "ValueRef"
\* isinstance(value, JobCallable): the object has __call__ (a function, and
\* ValueRef, whose __call__ returns its value)
IsJobCallable(value) == value.type \in {"function", "ValueRef"}

\* how a call ends: it returns value, or it raises the exception named
Return(value) == [raised |-> "", value |-> value]
Raise(exception) == [raised |-> exception, value |-> NoValue]

\* Values()
EmptyValues == [k \in {} |-> NoValue]

\* Values.has_value(key)
ValuesHasValue(vs, key) == key \in DOMAIN vs

\* Values.get(key)
ValuesGet(vs, key) ==
    IF key \in DOMAIN vs THEN Return(vs[key]) ELSE Raise("NoValueError")

\* Values.unset(key): dict.pop(key) with no default
ValuesUnset(vs, key) ==
    IF key \in DOMAIN vs
    THEN [raised |-> "", values |-> [k \in DOMAIN vs \ {key} |-> vs[k]]]
    ELSE [raised |-> "KeyError", values |-> vs]

\* ValueRef.has_value, ValueRef.get
ProviderHasValue(provider) == provider.value # NoValue

ProviderGet(provider) ==
    IF ProviderHasValue(provider) THEN Return(provider.value) ELSE Raise("NoValueError")

\* Values.set(key, value): a provider is stored as the value it holds, and
\* a provider without a value, or NoValue, unsets the key
ValuesSet(vs, key, value) ==
    LET store(v) == [raised |-> "",
                     values |-> [k \in DOMAIN vs \cup {key} |-> IF k = key THEN v ELSE vs[k]]]
    IN  IF IsValueProvider(value)
        THEN IF ProviderHasValue(value)
             THEN store(ProviderGet(value).value)
             ELSE ValuesUnset(vs, key)
        ELSE IF value = NoValue
        THEN ValuesUnset(vs, key)
        ELSE store(value)

\* a JobContext as the value functions see it; NoContext is context=None
Context(vs, scopes) == [given |-> TRUE, values |-> vs, scopes |-> scopes]
NoContext == [given |-> FALSE, values |-> EmptyValues, scopes |-> <<>>]

\* value(context) for the callables that are resolved
Call(value, context) ==
    IF value.type = "function"
    THEN ValuesGet(context.values, value.name)
    ELSE ProviderGet(value)

\* resolve_value testing for a callable before it tests for a provider
resolve_valueCallableFirst(value, context, default, raise_no_value) ==
    IF IsValueKey(value)
    THEN IF context.given
         THEN IF raise_no_value \/ ValuesHasValue(context.values, value.name)
              THEN ValuesGet(context.values, value.name)
              ELSE Return(default)
         ELSE IF raise_no_value
              THEN Raise("NoValueError")
              ELSE Return(default)
    ELSE IF IsJobCallable(value)
    THEN IF context.given
         THEN Call(value, context)
         ELSE IF raise_no_value
              THEN Raise("NoValueError")
              ELSE Return(default)
    ELSE IF IsValueProvider(value)
    THEN IF raise_no_value \/ ProviderHasValue(value)
         THEN ProviderGet(value)
         ELSE Return(default)
    ELSE Return(value)

\* resolve_value(value, context=, default=, raise_no_value=)
resolve_value(value, context, default, raise_no_value) ==
    IF IsValueKey(value)
    THEN IF context.given
         THEN IF raise_no_value \/ ValuesHasValue(context.values, value.name)
              THEN ValuesGet(context.values, value.name)
              ELSE Return(default)
         ELSE IF raise_no_value
              THEN Raise("NoValueError")
              ELSE Return(default)
    ELSE IF IsValueProvider(value)
    THEN IF raise_no_value \/ ProviderHasValue(value)
         THEN ProviderGet(value)
         ELSE Return(default)
    ELSE IF IsJobCallable(value)
    THEN IF context.given
         THEN Call(value, context)
         ELSE IF raise_no_value
              THEN Raise("NoValueError")
              ELSE Return(default)
    ELSE Return(value)

RECURSIVE Join(_, _)
\* ".".join(names[:k])
Join(names, k) ==
    IF k = 0 THEN ""
    ELSE IF k = 1 THEN names[1]
    ELSE Join(names, k - 1) \o "." \o names[k]

\* the scoped keys context_value probes, most specific first
ScopedKeys(names, key) ==
    [i \in 1..Len(names) |-> Join(names, Len(names) + 1 - i) \o "." \o key]

\* context_value(key, default=default)(context), with no coercer: the result
\* and the value store it leaves
context_value(key, default, context) ==
    LET vs == context.values
        keys == ScopedKeys(context.scopes, key)
        present == {i \in DOMAIN keys : ValuesHasValue(vs, keys[i])}
        value == IF present = {} THEN NoValue
                 ELSE vs[keys[CHOOSE i \in present : \A m \in present : i <= m]]
    IN  IF ~ValuesHasValue(vs, key) /\ default # NoValue
        THEN LET set == ValuesSet(vs, key, default)
             IN  IF set.raised # ""
                 THEN [result |-> Raise(set.raised), values |-> vs]
                 ELSE [result |-> Return(default), values |-> set.values]
        ELSE IF value = NoValue
        THEN [result |-> ValuesGet(vs, key), values |-> vs]
        ELSE [result |-> Return(value), values |-> vs]

\* no call has been made on the value functions
NoCall == [op |-> "none"]

IdleResolver ==
    /\ values = EmptyValues
    /\ resolved = NoCall

\* no invocation has been made
NoInvocation ==
    [called |-> FALSE, raising |-> {}, invoked |-> <<>>, results |-> <<>>,
     raised |-> FALSE, cause |-> PyNone]

IdleDelegate ==
    /\ delegate = [callbacks |-> <<>>, reverse |-> FALSE, continue_on_error |-> FALSE]
    /\ operations = <<>>
    /\ invocation = NoInvocation

\* no JobStageBuilder is open
NoStage == [name |-> 0, steps |-> <<>>]

\* JobBuilder(name), nothing built yet
IdleBuilder ==
    /\ builder = [stages |-> <<>>, stage |-> NoStage, step |-> 0,
                  propagating |-> FALSE, built |-> FALSE]
    /\ blocks = <<>>

IdleComponents ==
    /\ IdleResolver
    /\ IdleDelegate
    /\ IdleBuilder

----------------------------------------------------------------------------
(* The runs *)

Conditionals == {"None", "True", "False", "callable"}

\* the scopes of a tree that have run_if and skip_if attributes
ConditionalScopes(j) == {s \in DOMAIN j.scopes : IsConditionalScope(j.scopes[s])}

\* a tree with run_if / skip_if set on the scopes of f
WithConditions(j, f) ==
    [j EXCEPT !.scopes = [s \in DOMAIN j.scopes |->
        IF s \in DOMAIN f
        THEN [j.scopes[s] EXCEPT !.run_if = f[s][1], !.skip_if = f[s][2]]
        ELSE j.scopes[s]]]

Init ==
    /\ \E j \in Jobs :
         \E C \in SUBSET (IF j \in ConditionedJobs THEN ConditionalScopes(j) ELSE {}) :
            /\ Cardinality(C) <= MaxConditioned
            /\ \E f \in [C -> (Conditionals \X Conditionals) \ {<<"None", "None">>}] :
                 job = WithConditions(j, f)
    /\ frames = <<Frame(job.root)>>
    /\ state_stack = <<>>
    /\ scope_stack = <<>>
    /\ statuses = [s \in DOMAIN job.scopes |-> "UNKNOWN"]
    /\ errors = <<>>
    /\ events = <<>>
    /\ raised = 0
    /\ outcome = "running"
    /\ message = <<>>
    /\ nextErr = 1
    /\ listeners = <<>>
    /\ delivered = <<>>
    /\ calls = <<>>
    /\ IdleComponents

Next ==
    \/ RunScopeUnknown
    \/ RunScopeSkip
    \/ RunScopeEnter
    \/ RunGroup
    \/ RunGroupDone
    \/ RunAction
    \/ RunTeardown
    \/ ExitScope
    \/ RunFinish

Spec == Init /\ [][Next]_vars

\* run is sequential code: as long as the callables it calls return or
\* raise, its next step is taken
SpecLive == Spec /\ WF_vars(Next)

----------------------------------------------------------------------------
(* Runs over scope structures the protocols admit besides trees of steps  *)
(* and stages: a scope object listed as a child twice, and a group that   *)
(* also has a teardown attribute                                           *)

\* A group that also implements JobTeardownScope.
TeardownGroupScope(children) ==
    [type |-> "Stage", attrs |-> {"scopes", "teardown"},
     scopes |-> children, action |-> "None", teardown |-> "callable",
     run_if |-> "None", skip_if |-> "None"]

\* job -> [stage -> [step 3], stage -> [step 3, step 5]]: step 3 is one
\* object listed under both stages
SharedStepJob ==
    [name |-> "shared", root |-> 1,
     scopes |-> <<Job(<<2, 4>>), JobStage(<<3>>), JobStep,
                  JobStage(<<3, 5>>), JobStep>>]

\* job -> [group with teardown -> [step, step], step]
TeardownGroupJob ==
    [name |-> "teardown group", root |-> 1,
     scopes |-> <<Job(<<2, 5>>), TeardownGroupScope(<<3, 4>>), JobStep, JobStep,
                  JobStep>>]

ShapedJobs == {SharedStepJob, TeardownGroupJob, MixedJob}

InitShapes ==
    /\ job \in ShapedJobs
    /\ frames = <<Frame(job.root)>>
    /\ state_stack = <<>>
    /\ scope_stack = <<>>
    /\ statuses = [s \in DOMAIN job.scopes |-> "UNKNOWN"]
    /\ errors = <<>>
    /\ events = <<>>
    /\ raised = 0
    /\ outcome = "running"
    /\ message = <<>>
    /\ nextErr = 1
    /\ listeners = <<>>
    /\ delivered = <<>>
    /\ calls = <<>>
    /\ IdleComponents

SpecShapes == InitShapes /\ [][Next]_vars

\* _run_action for an action that raises from inside a block it opened with
\* context.status.section(...) (as ShellAction with raise_on_error does; item
\* and scope blocks have the same except clause): the block's except clause
\* calls error(e) and raises again, and _run_action calls error(e) as well
RunActionInSection ==
    /\ UNCHANGED <<collector, components>>
    /\ frames # <<>> /\ raised = 0 /\ Top.pc = "action"
    /\ Scope(Top.scope).action # "None"
    /\ Failures("action") < MaxActionFailures
    /\ frames' = SetTop([Top EXCEPT !.pc = "teardown", !.todo = TeardownPass(Top.scope)])
    /\ LET inBlock == StatusError(errors, statuses, scope_stack, nextErr)
           inRunner == StatusError(inBlock.errors, inBlock.statuses, scope_stack, nextErr)
       IN  /\ errors' = inRunner.errors
           /\ statuses' = inRunner.statuses
    /\ events' = events \o
          <<Ev("start_section", Top.scope, 0, 0, FALSE, "Executing"),
            Ev("error", Top.scope, 0, nextErr, FALSE, "section"),
            Ev("finish_section", Top.scope, 0, 0, FALSE, "Executing"),
            Ev("action", Top.scope, 0, nextErr, FALSE, ""),
            Ev("error", Top.scope, 0, nextErr, FALSE, "")>>
    /\ nextErr' = nextErr + 1
    /\ UNCHANGED <<job, state_stack, scope_stack, raised, outcome, message>>

NextSections ==
    \/ Next
    \/ RunActionInSection

SpecSections == InitShapes /\ [][NextSections]_vars

----------------------------------------------------------------------------
(* The context driven directly (context.py), as its callers and tests do:  *)
(* nested `with context.in_scope(s), context.status.scope(s)` blocks whose *)
(* bodies record errors or raise.  `frames` holds the open with blocks.    *)

\* three scopes that are entered by hand
ContextJob ==
    [name |-> "context", root |-> 1, scopes |-> <<JobStep, JobStep, JobStep>>]

\* a with block for some scope is entered (the statement _run_scope uses)
CtxEnter ==
    /\ UNCHANGED <<collector, components>>
    /\ raised = 0 /\ Len(frames) < MaxOpen
    /\ \E s \in ScopeIds :
          /\ GetStatus(statuses, s) # "UNKNOWN" => nextErr < MaxRaised
          /\ EnterScope(s, <<>>)
          /\ frames' = IF GetStatus(statuses, s) # "UNKNOWN" THEN frames
                       ELSE Append(frames, [Frame(s) EXCEPT !.pc = "teardown"])
    /\ UNCHANGED <<job, outcome, message>>

\* the body of the innermost open with block raises
CtxRaise ==
    /\ UNCHANGED <<collector, components>>
    /\ frames # <<>> /\ raised = 0 /\ nextErr <= MaxRaised
    /\ raised' = nextErr
    /\ nextErr' = nextErr + 1
    /\ UNCHANGED <<job, frames, state_stack, scope_stack, statuses, errors,
                   events, outcome, message>>

\* context.error(error), inside or outside any scope
CtxError ==
    /\ UNCHANGED <<collector, components>>
    /\ raised = 0 /\ nextErr <= MaxRaised
    /\ LET r == StatusError(errors, statuses, scope_stack, nextErr)
       IN  /\ errors' = r.errors
           /\ statuses' = r.statuses
    /\ events' = Append(events, Ev("error", Innermost, 0, nextErr, FALSE, ""))
    /\ nextErr' = nextErr + 1
    /\ UNCHANGED <<job, frames, state_stack, scope_stack, raised, outcome, message>>

\* the caller catches the exception that is propagating
CtxCatch ==
    /\ UNCHANGED <<collector, components>>
    /\ raised # 0
    /\ raised' = 0
    /\ UNCHANGED <<job, frames, state_stack, scope_stack, statuses, errors,
                   events, outcome, message, nextErr>>

InitContext ==
    /\ job = ContextJob
    /\ frames = <<>>
    /\ state_stack = <<>>
    /\ scope_stack = <<>>
    /\ statuses = [s \in DOMAIN job.scopes |-> "UNKNOWN"]
    /\ errors = <<>>
    /\ events = <<>>
    /\ raised = 0
    /\ outcome = "running"
    /\ message = <<>>
    /\ nextErr = 1
    /\ listeners = <<>>
    /\ delivered = <<>>
    /\ calls = <<>>
    /\ IdleComponents

NextContext ==
    \/ CtxEnter
    \/ CtxRaise
    \/ CtxError
    \/ CtxCatch
    \/ ExitScope

SpecContext == InitContext /\ [][NextContext]_vars

----------------------------------------------------------------------------
(* run over callables that use the context as SpecContext does: when the   *)
(* outermost with block is left, run builds its message (runner.py 31-34)  *)

NextReport ==
    \/ outcome = "running" /\ NextContext
    \/ RunFinish

SpecReport == InitContext /\ [][NextReport]_vars

----------------------------------------------------------------------------
(* Delegate and the fan-out of JobStatusCollector (__init__.py)            *)

Reverse(seq) == [k \in DOMAIN seq |-> seq[Len(seq) + 1 - k]]

\* what a callback hands back: its return value, or the exception it raised
Returned(callback) == [type |-> "result", of |-> callback]
Raised(callback) == [type |-> "Exception", of |-> callback]

RECURSIVE DelegateFromAbortAlways(_, _, _, _)
\* a Delegate that stops at the first exception whatever its options
DelegateFromAbortAlways(callbacks, raising, continue_on_error, k) ==
    IF k > Len(callbacks)
    THEN [invoked |-> <<>>, results |-> <<>>, raised |-> FALSE, cause |-> PyNone]
    ELSE IF callbacks[k] \in raising
    THEN [invoked |-> <<callbacks[k]>>,
          results |-> <<Raised(callbacks[k])>> \o
                      [i \in 1..(Len(callbacks) - k) |-> PyNone],
          raised |-> TRUE,
          cause |-> Raised(callbacks[k])]
    ELSE LET rest == DelegateFromAbortAlways(callbacks, raising, continue_on_error, k + 1)
         IN  [invoked |-> <<callbacks[k]>> \o rest.invoked,
              results |-> <<IF callbacks[k] \in raising
                            THEN Raised(callbacks[k])
                            ELSE Returned(callbacks[k])>> \o rest.results,
              raised |-> rest.raised,
              cause |-> rest.cause]

RECURSIVE DelegateFromContinueAlways(_, _, _, _)
\* a Delegate that carries on after an exception whatever its options
DelegateFromContinueAlways(callbacks, raising, continue_on_error, k) ==
    IF k > Len(callbacks)
    THEN [invoked |-> <<>>, results |-> <<>>, raised |-> FALSE, cause |-> PyNone]
    ELSE IF FALSE
    THEN [invoked |-> <<callbacks[k]>>,
          results |-> <<Raised(callbacks[k])>> \o
                      [i \in 1..(Len(callbacks) - k) |-> PyNone],
          raised |-> TRUE,
          cause |-> Raised(callbacks[k])]
    ELSE LET rest == DelegateFromContinueAlways(callbacks, raising, continue_on_error, k + 1)
         IN  [invoked |-> <<callbacks[k]>> \o rest.invoked,
              results |-> <<IF callbacks[k] \in raising
                            THEN Raised(callbacks[k])
                            ELSE Returned(callbacks[k])>> \o rest.results,
              raised |-> rest.raised,
              cause |-> rest.cause]

RECURSIVE DelegateFrom(_, _, _, _)
\* Invoking a delegate from its k-th callback on: the callbacks invoked, in
\* order, the results list, whether the call raised, and the exception that
\* made it raise.  With continue_on_error a raising callback's exception
\* becomes its result and the next callback is invoked; without it the
\* first exception stops the call and is raised as the cause of a
\* DelegateException that carries the results so far, the exception, and
\* None for each callback that was not invoked.
DelegateFrom(callbacks, raising, continue_on_error, k) ==
    IF k > Len(callbacks)
    THEN [invoked |-> <<>>, results |-> <<>>, raised |-> FALSE, cause |-> PyNone]
    ELSE IF callbacks[k] \in raising /\ ~continue_on_error
    THEN [invoked |-> <<callbacks[k]>>,
          results |-> <<Raised(callbacks[k])>> \o
                      [i \in 1..(Len(callbacks) - k) |-> PyNone],
          raised |-> TRUE,
          cause |-> Raised(callbacks[k])]
    ELSE LET rest == DelegateFrom(callbacks, raising, continue_on_error, k + 1)
         IN  [invoked |-> <<callbacks[k]>> \o rest.invoked,
              results |-> <<IF callbacks[k] \in raising
                            THEN Raised(callbacks[k])
                            ELSE Returned(callbacks[k])>> \o rest.results,
              raised |-> rest.raised,
              cause |-> rest.cause]

\* a Delegate that ignores reverse
DelegateCallForward(callbacks, raising, options) ==
    DelegateFrom(callbacks, raising, options.continue_on_error, 1)

\* delegate(...): registration order, or the reverse of it
DelegateCall(callbacks, raising, options) ==
    DelegateFrom(IF options.reverse THEN Reverse(callbacks) ELSE callbacks,
                 raising, options.continue_on_error, 1)

\* the options of a Delegate that is given none
DelegateDefaults == [reverse |-> FALSE, continue_on_error |-> FALSE]

\* the delegates of JobStatusCollector are declared with a bare @delegate
CollectorDelegate == DelegateDefaults

\* the methods of JobStatus that the collector fans out
StatusEvents ==
    {"start_scope", "finish_scope", "skip_scope", "start_section",
     "finish_section", "start_item", "finish_item", "info", "detail",
     "error", "warning", "output"}

runner == <<job, frames, state_stack, scope_stack, statuses, errors, events,
            raised, outcome, message, nextErr>>

\* add_listener(status_listener)
AddListener ==
    /\ Len(listeners) < MaxListeners
    /\ \E l \in 1..MaxListeners :
          /\ ~InSeq(l, listeners)
          /\ listeners' = Append(listeners, l)
    /\ UNCHANGED <<delivered, calls>>
    /\ UNCHANGED <<runner, components>>

\* one call of a collector method: the fan-out to the listeners, any of
\* which may raise
CollectorCall ==
    /\ Len(calls) < MaxCalls
    /\ \E ev \in StatusEvents, raising \in SUBSET {listeners[k] : k \in DOMAIN listeners} :
          LET result == DelegateCall(listeners, raising, CollectorDelegate)
              call == Len(calls) + 1
          IN  /\ delivered' = delivered \o
                    [k \in DOMAIN result.invoked |->
                        [call |-> call, listener |-> result.invoked[k], ev |-> ev,
                         raised |-> result.invoked[k] \in raising]]
              /\ calls' = Append(calls, [ev |-> ev, registered |-> listeners,
                                         escaped |-> result.raised])
    /\ UNCHANGED listeners
    /\ UNCHANGED <<runner, components>>

InitCollector ==
    /\ job = ContextJob
    /\ frames = <<>>
    /\ state_stack = <<>>
    /\ scope_stack = <<>>
    /\ statuses = [s \in DOMAIN job.scopes |-> "UNKNOWN"]
    /\ errors = <<>>
    /\ events = <<>>
    /\ raised = 0
    /\ outcome = "running"
    /\ message = <<>>
    /\ nextErr = 1
    /\ listeners = <<>>
    /\ delivered = <<>>
    /\ calls = <<>>
    /\ IdleComponents

NextCollector ==
    \/ AddListener
    \/ CollectorCall

SpecCollector == InitCollector /\ [][NextCollector]_vars

----------------------------------------------------------------------------
(* The value functions called on a context                                 *)

\* scope.name of the scopes a context value is read in: a job, a stage of
\* it, and steps below
ScopeName(s) == IF s = 1 THEN "job" ELSE IF s = 2 THEN "stage" ELSE "step"

\* [scope.name for scope in context.scopes]
ScopeNames == [i \in DOMAIN state_stack |-> ScopeName(state_stack[i])]

\* the keys that are read
Keys == {"key"}

\* the keys that are set: the keys read, bare and under every scope
StoredKeys ==
    LET names == [i \in 1..MaxDepth |-> ScopeName(i)]
    IN  Keys \cup {ScopedKeys(names, key)[i] : key \in Keys, i \in 1..MaxDepth}

\* the value set under a key: one per key, so that a value read tells the
\* key it was read from
StoredValue(key) == Str("value of " \o key)

\* what is handed to resolve_value
Resolvables ==
    {ValueKey("key"), ValueKey("job.key"),
     ValueRef(NoValue), ValueRef(Str("value")), ValueRef(PyNone),
     Lambda("key"), Str("value"), PyNone}

\* default= of resolve_value
Defaults == {PyNone, Str("default")}

\* default= of context_value (NoValue: none given)
ContextValueDefaults ==
    {NoValue, PyNone, Str("default"), ValueRef(Str("default")), ValueRef(NoValue)}

\* what the value functions leave alone
untouched == <<job, frames, scope_stack, statuses, errors, events, raised,
               outcome, message, nextErr, collector, delegates, builders>>

\* JobContextImpl._enter_scope
ValuesEnterScope ==
    /\ Len(state_stack) < MaxDepth
    /\ state_stack' = Append(state_stack, Len(state_stack) + 1)
    /\ resolved' = NoCall
    /\ UNCHANGED <<values, untouched>>

\* JobContextImpl._exit_scope
ValuesExitScope ==
    /\ state_stack # <<>>
    /\ state_stack' = SubSeq(state_stack, 1, Len(state_stack) - 1)
    /\ resolved' = NoCall
    /\ UNCHANGED <<values, untouched>>

\* context.values.set(key, value)
SetValue ==
    /\ \E key \in StoredKeys :
          values' = ValuesSet(values, key, StoredValue(key)).values
    /\ resolved' = NoCall
    /\ UNCHANGED <<state_stack, untouched>>

\* resolve_value(value, context=, default=, raise_no_value=)
ResolveValueCall ==
    /\ \E value \in Resolvables, given \in BOOLEAN, default \in Defaults,
          raise_no_value \in BOOLEAN :
          LET context == IF given THEN Context(values, ScopeNames) ELSE NoContext
          IN  resolved' = [op |-> "resolve_value", value |-> value,
                           context |-> context, default |-> default,
                           raise_no_value |-> raise_no_value,
                           result |-> resolve_value(value, context, default, raise_no_value)]
    /\ UNCHANGED <<values, state_stack, untouched>>

\* context_value(key, default=default)(context)
ContextValueCall ==
    /\ \E key \in Keys, default \in ContextValueDefaults :
          LET context == Context(values, ScopeNames)
              call == context_value(key, default, context)
          IN  /\ values' = call.values
              /\ resolved' = [op |-> "context_value", key |-> key,
                              context |-> context, default |-> default,
                              result |-> call.result]
    /\ UNCHANGED <<state_stack, untouched>>

\* a context with no values and no scope entered
InitValues == InitContext

NextValues ==
    \/ ValuesEnterScope
    \/ ValuesExitScope
    \/ SetValue
    \/ ResolveValueCall
    \/ ContextValueCall

SpecValues == InitValues /\ [][NextValues]_vars

----------------------------------------------------------------------------
(* A Delegate built, changed and invoked                                    *)

\* no run, no scope entered, nothing recorded
IdleRunner ==
    /\ job = ContextJob
    /\ frames = <<>>
    /\ state_stack = <<>>
    /\ scope_stack = <<>>
    /\ statuses = [s \in DOMAIN job.scopes |-> "UNKNOWN"]
    /\ errors = <<>>
    /\ events = <<>>
    /\ raised = 0
    /\ outcome = "running"
    /\ message = <<>>
    /\ nextErr = 1

IdleCollector ==
    /\ listeners = <<>>
    /\ delivered = <<>>
    /\ calls = <<>>

\* add_callback(callback)
AddCallback ==
    /\ Len(operations) < MaxOperations
    /\ \E callback \in 1..MaxCallbacks :
          /\ ~InSeq(callback, delegate.callbacks)
          /\ delegate' = [delegate EXCEPT !.callbacks = Append(@, callback)]
          /\ operations' = Append(operations, [op |-> "add", callback |-> callback])
    /\ invocation' = NoInvocation
    /\ UNCHANGED <<runner, collector, resolver, builders>>

\* remove_callback(callback): nothing happens when it is not registered
RemoveCallback ==
    /\ Len(operations) < MaxOperations
    /\ \E callback \in 1..MaxCallbacks :
          /\ delegate' = [delegate EXCEPT !.callbacks =
                              SelectSeq(@, LAMBDA c : c # callback)]
          /\ operations' = Append(operations, [op |-> "remove", callback |-> callback])
    /\ invocation' = NoInvocation
    /\ UNCHANGED <<runner, collector, resolver, builders>>

\* delegate(...): any of the registered callbacks may raise
Invoke ==
    /\ \E raising \in SUBSET {delegate.callbacks[k] : k \in DOMAIN delegate.callbacks} :
          LET call == DelegateCall(delegate.callbacks, raising, delegate)
          IN  invocation' = [called |-> TRUE, raising |-> raising,
                             invoked |-> call.invoked, results |-> call.results,
                             raised |-> call.raised, cause |-> call.cause]
    /\ UNCHANGED <<delegate, operations>>
    /\ UNCHANGED <<runner, collector, resolver, builders>>

\* Delegate(reverse=, continue_on_error=)
InitDelegate ==
    /\ IdleRunner
    /\ IdleCollector
    /\ IdleResolver
    /\ IdleBuilder
    /\ \E reverse \in BOOLEAN, continue_on_error \in BOOLEAN :
          delegate = [callbacks |-> <<>>, reverse |-> reverse,
                      continue_on_error |-> continue_on_error]
    /\ operations = <<>>
    /\ invocation = NoInvocation

NextDelegate ==
    \/ AddCallback
    \/ RemoveCallback
    \/ Invoke

SpecDelegate == InitDelegate /\ [][NextDelegate]_vars

----------------------------------------------------------------------------
(* JobBuilder and JobStageBuilder (job.py)                                  *)

\* what the builders leave alone
unbuilt == <<runner, collector, resolver, delegates>>

\* a block is opened: it is named by its position among the blocks
Opened(kind) ==
    Append(blocks, [kind |-> kind, name |-> Len(blocks) + 1,
                    within |-> builder.stage.name, exit |-> "open"])

\* the block named leaves with exit
Exited(name, exit) == [blocks EXCEPT ![name].exit = exit]

\* with sut.stage(name) as stage: a JobStageBuilder is made and yielded
StageEnter ==
    /\ builder.stage = NoStage
    /\ ~builder.propagating
    /\ Len(blocks) < MaxBlocks
    /\ builder' = [builder EXCEPT !.stage = [name |-> Len(blocks) + 1, steps |-> <<>>]]
    /\ blocks' = Opened("stage")
    /\ UNCHANGED unbuilt

\* with stage.step(name) as step: a JobStep is made and yielded
StepEnter ==
    /\ builder.stage # NoStage
    /\ builder.step = 0
    /\ ~builder.propagating
    /\ Len(blocks) < MaxBlocks
    /\ builder' = [builder EXCEPT !.step = Len(blocks) + 1]
    /\ blocks' = Opened("step")
    /\ UNCHANGED unbuilt

\* the step block ends: the generator resumes after its yield and appends
StepExit ==
    /\ builder.step # 0
    /\ builder' = [builder EXCEPT !.stage.steps = Append(@, builder.step),
                                  !.step = 0]
    /\ blocks' = Exited(builder.step, "normal")
    /\ UNCHANGED unbuilt

\* a step generator that appends in a finally clause
StepRaiseAppends ==
    /\ builder.step # 0
    /\ builder' = [builder EXCEPT !.stage.steps = Append(@, builder.step),
                                  !.step = 0, !.propagating = TRUE]
    /\ blocks' = Exited(builder.step, "exception")
    /\ UNCHANGED unbuilt

\* an exception leaves the step block: it is thrown into the generator at
\* its yield, the append is not reached, and the exception carries on
StepRaise ==
    /\ builder.step # 0
    /\ builder' = [builder EXCEPT !.step = 0, !.propagating = TRUE]
    /\ blocks' = Exited(builder.step, "exception")
    /\ UNCHANGED unbuilt

\* the stage block ends: the generator appends builder.build()
StageExit ==
    /\ builder.stage # NoStage
    /\ builder.step = 0
    /\ ~builder.propagating
    /\ builder' = [builder EXCEPT !.stages = Append(@, builder.stage),
                                  !.stage = NoStage]
    /\ blocks' = Exited(builder.stage.name, "normal")
    /\ UNCHANGED unbuilt

\* an exception leaves the stage block, raised in it or come from a step
StageRaise ==
    /\ builder.stage # NoStage
    /\ builder.step = 0
    /\ builder' = [builder EXCEPT !.stage = NoStage, !.propagating = TRUE]
    /\ blocks' = Exited(builder.stage.name, "exception")
    /\ UNCHANGED unbuilt

\* the caller's except clause around the block that was left
Catch ==
    /\ builder.propagating
    /\ builder' = [builder EXCEPT !.propagating = FALSE]
    /\ UNCHANGED blocks
    /\ UNCHANGED unbuilt

\* sut.build(): the Job holds the builder's list of stages
Build ==
    /\ builder.stage = NoStage
    /\ ~builder.propagating
    /\ ~builder.built
    /\ builder' = [builder EXCEPT !.built = TRUE]
    /\ UNCHANGED blocks
    /\ UNCHANGED unbuilt

\* Job.stages of the job built
BuiltStages == builder.stages

InitBuilder ==
    /\ IdleRunner
    /\ IdleCollector
    /\ IdleResolver
    /\ IdleDelegate
    /\ IdleBuilder

NextBuilder ==
    \/ StageEnter
    \/ StepEnter
    \/ StepExit
    \/ StepRaise
    \/ StageExit
    \/ StageRaise
    \/ Catch
    \/ Build

SpecBuilder == InitBuilder /\ [][NextBuilder]_vars

----------------------------------------------------------------------------
(* The tree, read off the declaration alone *)

\* The relations of a tree j are worked out once per tree, from its
\* declaration, and looked up by the name of the tree that is run.
TreeChildren(j, s) == {j.scopes[s].scopes[k] : k \in DOMAIN j.scopes[s].scopes}
TreeParent(j, s) ==
    IF s = j.root THEN 0 ELSE CHOOSE p \in DOMAIN j.scopes : s \in TreeChildren(j, p)

RECURSIVE TreePath(_, _)
TreePath(j, s) ==
    IF s = j.root THEN <<s>> ELSE Append(TreePath(j, TreeParent(j, s)), s)

RECURSIVE PreorderFrom(_, _, _)
PreorderFrom(j, g, k) ==
    IF k > Len(j.scopes[g].scopes) THEN <<>>
    ELSE <<j.scopes[g].scopes[k]>> \o PreorderFrom(j, j.scopes[g].scopes[k], 1)
                                   \o PreorderFrom(j, g, k + 1)

TreeOf ==
    [n \in {j.name : j \in Jobs} |->
        LET j == CHOOSE x \in Jobs : x.name = n
            ids == DOMAIN j.scopes
            path == [s \in ids |-> TreePath(j, s)]
            anc == [s \in ids |-> {path[s][k] : k \in 1..(Len(path[s]) - 1)}]
            pre == <<j.root>> \o PreorderFrom(j, j.root, 1)
        IN  [children |-> [s \in ids |-> TreeChildren(j, s)],
             parent |-> [s \in ids |-> TreeParent(j, s)],
             path |-> path,
             ancestors |-> anc,
             descendants |-> [g \in ids |-> {s \in ids : g \in anc[s]}],
             declared |-> [g \in ids |-> PreorderFrom(j, g, 1)],
             preorder |-> pre,
             position |-> [s \in ids |-> CHOOSE k \in DOMAIN pre : pre[k] = s]]]

Tree == TreeOf[job.name]

Children(s) == Tree.children[s]
Parent(s) == Tree.parent[s]
\* the scopes from the root down to s
PathTo(s) == Tree.path[s]
Ancestors(s) == Tree.ancestors[s]
Descendants(g) == Tree.descendants[g]
Siblings(s) == IF s = job.root THEN {} ELSE Children(Parent(s)) \ {s}

\* the descendants of g whose teardown a pass of g looks at
TeardownLeaves(g) ==
    {t \in Descendants(g) : ~IsGroupScope(Scope(t)) /\ IsTeardownScope(Scope(t))}

Has(ev, s) == \E k \in DOMAIN events : events[k].ev = ev /\ events[k].scope = s
HasUnder(ev, s, g) ==
    \E k \in DOMAIN events :
        events[k].ev = ev /\ events[k].scope = s /\ events[k].under = g

\* the indices the step added to events
Added == (Len(events) + 1)..Len(events')

Done == outcome # "running"

----------------------------------------------------------------------------
(* Properties *)

\* C1: when a scope's action raises, the exception is recorded under the
\* current scope path (root down to the failing scope), the failing scope
\* becomes FAILING, and the exception does not propagate: the scope goes on
\* to its teardown.
C1_ActionErrorRecorded ==
    [][\A k \in Added :
          (events'[k].ev = "action" /\ events'[k].err # 0) =>
             LET s == events'[k].scope
                 e == events'[k].err
             IN  /\ scope_stack = PathTo(s)
                 /\ \E n \in DOMAIN errors' :
                        /\ errors'[n].path = PathTo(s)
                        /\ InSeq(e, errors'[n].errs)
                 /\ \A n \in DOMAIN errors' :
                        InSeq(e, errors'[n].errs) => errors'[n].path = PathTo(s)
                 /\ statuses'[s] = "FAILING"
                 /\ raised' = 0
                 /\ frames' # <<>>
                 /\ frames'[Len(frames')].scope = s
                 /\ frames'[Len(frames')].pc = "teardown"]_vars

C1_Witness ==
    \E k \in DOMAIN events :
        /\ events[k].ev = "action" /\ events[k].err # 0
        /\ statuses[events[k].scope] = "FAILING"
        /\ Len(scope_stack) = 3
        /\ raised = 0

\* every scope that was started has been finished
AllExited ==
    /\ frames = <<>> /\ state_stack = <<>> /\ scope_stack = <<>>
    /\ \A k \in DOMAIN events :
          events[k].ev = "start_scope" =>
             \E m \in DOMAIN events :
                 m > k /\ events[m].ev = "finish_scope"
                       /\ events[m].scope = events[k].scope

\* every started scope's teardown pass has looked at every teardown it covers
AllTornDown ==
    \A g \in ScopeIds :
        Has("start_scope", g) =>
           \A t \in (IF IsGroupScope(Scope(g)) THEN TeardownLeaves(g)
                     ELSE IF IsTeardownScope(Scope(g)) THEN {g} ELSE {}) :
               IF statuses[t] \in {"UNKNOWN", "SKIPPED"}
               THEN HasUnder("detail", t, g)
               ELSE Scope(t).teardown # "None" => HasUnder("teardown", t, g)

\* C2: once the root call has returned, run raises its aggregate exception
\* exactly when an error is recorded, and returns normally exactly when none
\* is; when it raises the aggregate, every entered scope has exited and
\* every teardown pass has run.
C2_AggregateIffErrors ==
    (Done /\ raised = 0) =>
        /\ (outcome = "aggregate") <=> (errors # <<>>)
        /\ (outcome = "returned") <=> (errors = <<>>)
        /\ outcome = "aggregate" =>
              /\ AllExited
              /\ AllTornDown
              /\ \A n \in DOMAIN errors :
                    \A i \in DOMAIN errors[n].errs : InSeq(errors[n].errs[i], message)

C2_Witness ==
    /\ outcome = "aggregate"
    /\ \E k \in DOMAIN events : events[k].ev = "teardown"
    /\ \E k \in DOMAIN events : events[k].ev = "skip_scope"

\* a scope with the Conditional capability and neither condition set
DefaultConditioned(s) ==
    /\ IsConditionalScope(Scope(s)) /\ HasCapability(Scope(s))
    /\ Scope(s).run_if = "None" /\ Scope(s).skip_if = "None"

\* C3: a Conditional scope with neither run_if nor skip_if set is skipped if
\* and only if an error has already been recorded when the scope is reached;
\* otherwise it is entered.
C3_DefaultCondition ==
    [][(frames # <<>> /\ frames' # frames /\ Top.pc = "start"
         /\ DefaultConditioned(Top.scope)) =>
          IF errors # <<>>
          THEN /\ statuses' = [statuses EXCEPT ![Top.scope] = "SKIPPED"]
               /\ state_stack' = state_stack
               /\ events'[Len(events')].ev = "skip_scope"
               /\ frames' = Pop
          ELSE /\ statuses' = [statuses EXCEPT ![Top.scope] = "RUNNING"]
               /\ state_stack' = Append(state_stack, Top.scope)
               /\ events'[Len(events')].ev = "start_scope"]_vars

C3_Witness ==
    \E s, r \in ScopeIds :
        /\ DefaultConditioned(s) /\ DefaultConditioned(r)
        /\ statuses[r] = "FAILED" /\ Has("action", r)
        /\ statuses[s] = "SKIPPED"
        /\ \E q \in ScopeIds : DefaultConditioned(q) /\ statuses[q] = "PASSED"

\* the value a condition of s resolved to: the literal, or what the
\* callable returned when the decision called it
Resolved(s, name, cond) ==
    IF cond = "True" THEN TRUE
    ELSE IF cond = "False" THEN FALSE
    ELSE \E k \in DOMAIN events :
            events[k].ev = name /\ events[k].scope = s /\ events[k].val

\* the reference verdict for the decision at index k of events
ReferenceSkip(s, k) ==
    LET run_if == Scope(s).run_if
        skip_if == Scope(s).skip_if
    IN  IF run_if = "None" /\ skip_if = "None"
        THEN \E m \in 1..(k - 1) : events[m].ev = "error"
        ELSE IF run_if = "None" THEN Resolved(s, "skip_if", skip_if)
        ELSE IF skip_if = "None" THEN ~Resolved(s, "run_if", run_if)
        ELSE IF ~Resolved(s, "run_if", run_if) THEN TRUE
        ELSE Resolved(s, "skip_if", skip_if)

\* C4: for a Conditional scope the verdict of _should_skip is the reference:
\* both unset -> errors recorded; only skip_if -> skip_if; only run_if ->
\* NOT run_if; both -> skip if run_if is false, otherwise skip_if.
C4_SkipVerdict ==
    \A k \in DOMAIN events :
        (events[k].ev \in {"skip_scope", "start_scope"}
           /\ IsConditionalScope(Scope(events[k].scope))) =>
           ((events[k].ev = "skip_scope") <=> ReferenceSkip(events[k].scope, k))

C4_Witness ==
    \E s \in ScopeIds :
        /\ Scope(s).run_if = "True" /\ Scope(s).skip_if = "True"
        /\ Has("skip_scope", s)
        /\ Done

Declared(g) == Tree.declared[g]
Position(seq, x) == CHOOSE n \in DOMAIN seq : seq[n] = x

\* C7: within the teardown pass of a group, teardowns are invoked in
\* reverse declaration order, also across nested groups.
C7_ReverseTeardownOrder ==
    LET T == {k \in DOMAIN events : events[k].ev = "teardown"}
    IN  \A i, j \in T :
            (/\ i < j
             /\ events[i].under = events[j].under
             /\ IsGroupScope(Scope(events[i].under))) =>
               Position(Declared(events[i].under), events[i].scope)
                  > Position(Declared(events[j].under), events[j].scope)

C7_Witness ==
    /\ Done
    /\ \E i, j \in DOMAIN events :
          /\ i < j
          /\ events[i].ev = "teardown" /\ events[j].ev = "teardown"
          /\ events[i].under = job.root /\ events[j].under = job.root
          /\ Parent(events[i].scope) # Parent(events[j].scope)
    /\ \E i, j \in DOMAIN events :
          /\ i < j
          /\ events[i].ev = "teardown" /\ events[j].ev = "teardown"
          /\ events[i].under = events[j].under
          /\ events[i].under = Parent(events[i].scope)
          /\ events[i].under = Parent(events[j].scope)

\* C8: an exception of a teardown callable is a warning only: it is not
\* recorded as an error, fails no scope, does not make run raise and does
\* not stop the remaining teardowns.
C8_TeardownFailureIsWarning ==
    /\ \A k \in DOMAIN events :
          (events[k].ev = "teardown" /\ events[k].err # 0) =>
             LET e == events[k].err
             IN  /\ k + 1 \in DOMAIN events
                 /\ events[k + 1].ev = "warning" /\ events[k + 1].err = e
                 /\ \A n \in DOMAIN errors : ~InSeq(e, errors[n].errs)
                 /\ \A m \in DOMAIN events : events[m].ev = "error" => events[m].err # e
                 /\ raised # e
                 /\ ~InSeq(e, message)
    /\ (\A k \in DOMAIN events :
           events[k].ev \in {"action", "unknown_scope"} => events[k].err = 0) =>
          /\ \A s \in ScopeIds : statuses[s] \notin {"FAILING", "FAILED"}
          /\ outcome \in {"running", "returned"}
    /\ \A g \in ScopeIds :
          Has("finish_scope", g) =>
             \A t \in (IF IsGroupScope(Scope(g)) THEN TeardownLeaves(g) ELSE {}) :
                 (statuses[t] \notin {"UNKNOWN", "SKIPPED"} /\ Scope(t).teardown # "None")
                    => HasUnder("teardown", t, g)

C8_Witness ==
    /\ outcome = "returned"
    /\ \E k, m \in DOMAIN events :
          /\ k < m
          /\ events[k].ev = "teardown" /\ events[k].err # 0
          /\ events[m].ev = "teardown" /\ events[m].under = events[k].under
          /\ \E a \in DOMAIN events : a > m /\ events[a].ev = "action"

\* no scope of the tree has run_if or skip_if set
NoConditions ==
    \A s \in ScopeIds : Scope(s).run_if = "None" /\ Scope(s).skip_if = "None"

\* every scope of the tree implements Group, Action or Teardown
AllKnown == \A s \in ScopeIds : HasCapability(Scope(s))

ActionFailedAt(s) ==
    \E k \in DOMAIN events :
        events[k].ev = "action" /\ events[k].scope = s /\ events[k].err # 0

\* s was entered, and its action, if any, invoked
Executed(s) ==
    /\ Has("start_scope", s) /\ Has("finish_scope", s)
    /\ (IsActionScope(Scope(s)) /\ ~IsGroupScope(Scope(s))
          /\ Scope(s).action # "None") => Has("action", s)

\* how often the pass of g looked at the teardown of t
Visits(t, g) ==
    Cardinality({k \in DOMAIN events :
        /\ events[k].ev \in {"teardown", "detail"}
        /\ events[k].scope = t /\ events[k].under = g})

\* the teardown pass of g ran exactly once
PassOnce(g) ==
    \A t \in TeardownLeaves(g) :
        Visits(t, g) = IF statuses[t] \in {"UNKNOWN", "SKIPPED"}
                          \/ Scope(t).teardown # "None" THEN 1 ELSE 0

DeclaredBefore(a, b) ==
    Position(Scope(Parent(a)).scopes, a) < Position(Scope(Parent(b)).scopes, b)

\* C9 as stated: with no conditions set, after an error in the action of S
\* every sibling of S is still executed and every ancestor's teardown runs
\* exactly once.
C9_Original ==
    (Done /\ NoConditions /\ AllKnown) =>
        \A s \in ScopeIds :
            ActionFailedAt(s) =>
               /\ \A b \in Siblings(s) : Executed(b)
               /\ \A a \in Ancestors(s) : PassOnce(a)

\* C9 as amended: with no conditions set and every scope of a known kind,
\* after an error in the action of S every sibling of S is still reached:
\* the siblings declared before S were executed, a later sibling is skipped
\* by the default condition when it is Conditional and executed otherwise;
\* the teardown of S and the teardown pass of every ancestor of S run
\* exactly once.
C9_SiblingsReached ==
    (Done /\ NoConditions /\ AllKnown) =>
        \A s \in ScopeIds :
            ActionFailedAt(s) =>
               /\ \A b \in Siblings(s) :
                     IF DeclaredBefore(s, b) /\ IsConditionalScope(Scope(b))
                     THEN /\ statuses[b] = "SKIPPED"
                          /\ Has("skip_scope", b)
                          /\ ~Has("start_scope", b) /\ ~Has("action", b)
                     ELSE Executed(b)
               /\ \A a \in Ancestors(s) : PassOnce(a) /\ Has("finish_scope", a)
               /\ IsTeardownScope(Scope(s)) => Visits(s, s) = 1
               /\ outcome = "aggregate"

C9_Witness ==
    /\ Done /\ NoConditions /\ AllKnown
    /\ \E s \in ScopeIds :
          /\ ActionFailedAt(s)
          /\ \E b \in Siblings(s) :
                DeclaredBefore(s, b) /\ ~IsConditionalScope(Scope(b)) /\ Executed(b)
          /\ \E b \in ScopeIds : statuses[b] = "SKIPPED"

\* the events of the given kinds, in order, as <<kind, scope, under>>
Trace(kinds) ==
    LET sel == SelectSeq(events, LAMBDA e : e.ev \in kinds)
    IN  [k \in DOMAIN sel |-> <<sel[k].ev, sel[k].scope, sel[k].under>>]

\* the run of the 3 x 2 job in which the action of step 1.2 (scope 4) raised
Step12Failed == Done /\ job = ThreeStageJob /\ ActionFailedAt(4)

ErrorScopes ==
    {events[k].scope : k \in {m \in DOMAIN events : events[m].ev = "error"}}

\* C11: an entered scope that has exited is FAILED if an error was recorded
\* by it or by a descendant while it was on the stack, and PASSED otherwise;
\* so every entered ancestor of a failing scope ends FAILED and a scope with
\* no error in its subtree ends PASSED whatever else failed.
C11_FinishStatus ==
    LET failing == ErrorScopes
        finished == {events[k].scope :
                        k \in {m \in DOMAIN events : events[m].ev = "finish_scope"}}
    IN  \A s \in finished :
            LET within == failing \cap ({s} \cup Descendants(s)) # {}
            IN  /\ statuses[s] = IF within THEN "FAILED" ELSE "PASSED"
                /\ within =>
                      \A a \in Ancestors(s) \cap finished : statuses[a] = "FAILED"

C11_Witness ==
    /\ Done
    /\ \E s, r \in ScopeIds :
          /\ ActionFailedAt(s) /\ statuses[s] = "FAILED"
          /\ Cardinality(Ancestors(s)) = 3
          /\ \A a \in Ancestors(s) : statuses[a] = "FAILED"
          /\ Has("action", r) /\ statuses[r] = "PASSED"

\* the scopes of the tree in declaration order, the root first
Preorder == Tree.preorder

IsVisit(k) == events[k].ev \in {"start_scope", "skip_scope", "unknown_scope"}

\* what the runner does inside the subtree of a, the passes of a's
\* ancestors left aside
Inside(a, k) ==
    /\ events[k].scope \in ({a} \cup Descendants(a))
    /\ events[k].under \in ({0, a} \cup Descendants(a))

\* C12: scopes are visited depth-first in declaration order, a child's
\* subtree is finished (its exit included) before the next sibling is
\* reached, and an action is invoked only between the start_scope and the
\* finish_scope of its own scope.
C12_DepthFirstInOrder ==
    LET V == {k \in DOMAIN events : IsVisit(k)}
        A == {k \in DOMAIN events : events[k].ev = "action"}
    IN  /\ \A i, j \in V :
              i < j => Tree.position[events[i].scope] < Tree.position[events[j].scope]
        /\ \A j \in V :
              \A a \in Siblings(events[j].scope) :
                  DeclaredBefore(a, events[j].scope) =>
                     /\ \E i \in 1..(j - 1) :
                           /\ events[i].ev \in {"finish_scope", "skip_scope"}
                           /\ events[i].scope = a
                     /\ \A m \in j..Len(events) : ~Inside(a, m)
        /\ \A k \in A :
              /\ \E i \in 1..(k - 1) :
                    events[i].ev = "start_scope" /\ events[i].scope = events[k].scope
              /\ \A m \in 1..(k - 1) :
                    ~(events[m].ev = "finish_scope" /\ events[m].scope = events[k].scope)
              /\ scope_stack = <<>> => Has("finish_scope", events[k].scope)

C12_Witness ==
    /\ outcome = "returned"
    /\ Len(Preorder) = 6
    /\ \E s \in ScopeIds : Cardinality(Ancestors(s)) = 3 /\ Has("action", s)
    /\ Has("action", Preorder[6])

\* C13: with run_if and skip_if both set, a run_if that resolves to "cannot
\* run" skips the scope with run_if's reason and skip_if is not evaluated;
\* skip_if is evaluated only right after run_if resolved to "can run".
C13_RunIfFirst ==
    \A k \in DOMAIN events :
        LET s == events[k].scope
        IN  /\ (events[k].ev = "skip_if" /\ Scope(s).run_if # "None") =>
                  /\ k > 1
                  /\ events[k - 1].ev = "run_if" /\ events[k - 1].scope = s
                  /\ events[k - 1].val
            /\ (events[k].ev = "run_if" /\ ~events[k].val) =>
                  /\ k + 1 \in DOMAIN events
                  /\ events[k + 1].ev = "skip_scope" /\ events[k + 1].scope = s
                  /\ events[k + 1].reason = events[k].reason
                  /\ ~Has("skip_if", s)

C13_Witness ==
    \E s \in ScopeIds :
        /\ Scope(s).run_if = "callable" /\ Scope(s).skip_if = "callable"
        /\ \E k \in DOMAIN events :
              /\ events[k].ev = "run_if" /\ events[k].scope = s /\ ~events[k].val
              /\ events[k + 1].ev = "skip_scope"
              /\ events[k + 1].reason = "run_if reason"
        /\ Done

\* C14: a scope without the Conditional capability is never skipped, also
\* when errors have been recorded: when the runner reaches it, it enters it.
C14_NonConditionalNeverSkipped ==
    \A s \in ScopeIds :
        ~IsConditionalScope(Scope(s)) =>
           /\ statuses[s] # "SKIPPED"
           /\ ~Has("skip_scope", s)
           /\ \A k \in DOMAIN events :
                 (events[k].ev = "job_never" /\ events[k].scope = s) =>
                    /\ ~events[k].val
                    /\ events[k + 1].ev = "start_scope" /\ events[k + 1].scope = s

C14_Witness ==
    \E s \in ScopeIds, k, m \in DOMAIN events :
        /\ ~IsConditionalScope(Scope(s))
        /\ k < m
        /\ events[k].ev = "error"
        /\ events[m].ev = "start_scope" /\ events[m].scope = s
        /\ statuses[s] = "PASSED"

\* C15: a scope that is no Group, Action or Teardown fails the run at once
\* with an unknown-scope error that reaches the caller of run; the scope is
\* never entered, stays UNKNOWN, and none of its conditions, action or
\* teardown is evaluated; nothing is visited after it.
C15_UnknownScopeFatal ==
    /\ \A s \in ScopeIds :
          ~(IsGroupScope(Scope(s)) \/ IsActionScope(Scope(s)) \/ IsTeardownScope(Scope(s))) =>
             /\ statuses[s] = "UNKNOWN"
             /\ \A m \in DOMAIN events :
                   events[m].scope = s => events[m].ev = "unknown_scope"
    /\ \A k \in DOMAIN events :
        events[k].ev = "unknown_scope" =>
           LET s == events[k].scope
           IN  /\ ~HasCapability(Scope(s))
               /\ statuses[s] = "UNKNOWN"
               /\ ~InSeq(s, state_stack) /\ ~InSeq(s, scope_stack)
               /\ \A m \in DOMAIN events : events[m].scope = s => m = k
               /\ \A m \in DOMAIN events :
                     m > k => events[m].ev \in {"error", "finish_scope", "detail",
                                                "start_section", "teardown",
                                                "warning", "finish_section"}
               /\ raised = events[k].err
               /\ Done => (outcome = "fatal" /\ message = <<events[k].err>>)

C15_Witness ==
    /\ outcome = "fatal"
    /\ \E k, m \in DOMAIN events :
          /\ events[k].ev = "unknown_scope"
          /\ m > k /\ events[m].ev = "teardown"

\* C16: entering a scope whose status is not UNKNOWN fails with a fatal
\* exception, and the attempt neither pushes the scope on the tracker's
\* stack nor changes its status (nor the stacks at all).
C16_ReentryIsFatal ==
    [][\A k \in Added :
          events'[k].ev = "start_scope_raised" =>
             LET s == events'[k].scope
             IN  /\ raised' # 0
                 /\ scope_stack' = scope_stack
                 /\ state_stack' = state_stack
                 /\ statuses'[s] = statuses[s]]_vars

\* C17: context.scopes is the list of the with blocks that are open,
\* outermost first, whatever was raised inside them; it is empty when no
\* block is open.
C17_ScopesAreLifo ==
    /\ state_stack = [k \in DOMAIN frames |-> frames[k].scope]
    /\ frames = <<>> => state_stack = <<>>

C17_Witness ==
    /\ frames = <<>> /\ state_stack = <<>>
    /\ raised # 0
    /\ Cardinality({k \in DOMAIN events : events[k].ev = "finish_scope"}) = 2
    /\ \E n \in DOMAIN errors : Len(errors[n].path) = 2 /\ InSeq(raised, errors[n].errs)

\* X was on the tracker's stack when events[k] happened
OnStackAt(X, k) ==
    \E i \in 1..(k - 1) :
        /\ events[i].ev = "start_scope" /\ events[i].scope = X
        /\ \A m \in (i + 1)..(k - 1) :
              ~(events[m].ev = "finish_scope" /\ events[m].scope = X)

\* C18: get_errors(X) is exactly what was recorded while X was on the scope
\* stack, descendants' errors included and other scopes' errors excluded;
\* get_errors() is everything that was recorded, also outside any scope.
C18_GetErrors ==
    LET E == {k \in DOMAIN events : events[k].ev = "error"}
        all == GetErrors(errors, None)
    IN  /\ Len(all) = Cardinality(E)
        /\ {all[i] : i \in DOMAIN all} = {events[k].err : k \in E}
        /\ \A X \in ScopeIds :
              LET got == GetErrors(errors, X)
                  R == {k \in E : OnStackAt(X, k)}
              IN  /\ Len(got) = Cardinality(R)
                  /\ {got[i] : i \in DOMAIN got} = {events[k].err : k \in R}

C18_Witness ==
    /\ \E n \in DOMAIN errors : errors[n].path = <<>>
    /\ \E n \in DOMAIN errors : Len(errors[n].path) = 2
    /\ \E X, Y \in ScopeIds :
          /\ Len(GetErrors(errors, X)) = 2
          /\ Len(GetErrors(errors, Y)) = 1
          /\ Len(GetErrors(errors, None)) = 3

\* the listeners call c reached, in order
DeliveredTo(c) ==
    LET sel == SelectSeq(delivered, LAMBDA d : d.call = c)
    IN  [k \in DOMAIN sel |-> sel[k].listener]

\* C19: every collector call reaches every registered listener, in
\* registration order, and no listener's exception stops the fan-out or
\* escapes the call.
C19_EveryListenerEveryEvent ==
    \A c \in DOMAIN calls :
        /\ DeliveredTo(c) = calls[c].registered
        /\ ~calls[c].escaped

\* C20: a callback given to context.add_teardown(S, cb) is registered (the
\* call does not fail) and has been invoked once S has been torn down and
\* has exited.
C20_AddedTeardownRuns ==
    \A k \in DOMAIN events :
        events[k].ev = "add_teardown" =>
           /\ events[k].err = 0
           /\ Has("finish_scope", events[k].under) =>
                 \E m \in DOMAIN events :
                     /\ m > k
                     /\ events[m].ev = "added_teardown"
                     /\ events[m].under = events[k].under

\* what resolve_value is to return: by the kind of value handed in, with
\* "missing" the default or, when raise_no_value is set, NoValueError
ReferenceResolve(value, context, default, raise_no_value) ==
    LET missing == IF raise_no_value THEN Raise("NoValueError") ELSE Return(default)
    IN  CASE value.type = "ValueKey" ->
               IF context.given /\ value.name \in DOMAIN context.values
               THEN Return(context.values[value.name])
               ELSE missing
          [] value.type = "ValueRef" ->
               IF value.value # NoValue THEN Return(value.value) ELSE missing
          [] value.type = "function" ->
               IF context.given THEN Call(value, context) ELSE missing
          [] OTHER -> Return(value)

\* C21: resolve_value returns what the reference returns for every input
\* (key, then provider, then callable, then literal); a ValueRef holding v
\* resolves to v, and an empty ValueRef resolves to the default without
\* raising unless raise_no_value is set.
C21_ResolveValue ==
    resolved.op = "resolve_value" =>
        /\ resolved.result = ReferenceResolve(resolved.value, resolved.context,
                                              resolved.default, resolved.raise_no_value)
        /\ \A v \in {Str("value"), PyNone} :
              resolved.value = ValueRef(v) => resolved.result = Return(v)
        /\ resolved.value = ValueRef(NoValue) =>
              IF resolved.raise_no_value
              THEN resolved.result = Raise("NoValueError")
              ELSE resolved.result = Return(resolved.default)

C21_Witness ==
    /\ resolved.op = "resolve_value"
    /\ resolved.value = ValueRef(NoValue)
    /\ resolved.context.given
    /\ resolved.default = Str("default")
    /\ resolved.result = Return(Str("default"))

\* the keys a read of key probes with the scopes of context open, most
\* specific first and the bare key last
Probes(key, context) == ScopedKeys(context.scopes, key) \o <<key>>

\* the probed keys that hold a value, by position
Present(key, context) ==
    {i \in DOMAIN Probes(key, context) :
        Probes(key, context)[i] \in DOMAIN context.values}

\* C22: context_value(key) returns the value of the first (most specific)
\* probed key that is present; a default is returned only when none of the
\* probed keys is present.
C22_MostSpecificPresent ==
    resolved.op = "context_value" =>
        LET present == Present(resolved.key, resolved.context)
            first == CHOOSE i \in present : \A m \in present : i <= m
        IN  present # {} =>
               resolved.result =
                   Return(resolved.context.values[Probes(resolved.key, resolved.context)[first]])

\* C23: when none of the probed keys is present, context_value(key,
\* default=X) returns X and leaves X under the bare key; and a read with
\* the bare key present and no more specific key present returns what the
\* bare key holds, whatever its own default and scope depth.
C23_DefaultMemoized ==
    resolved.op = "context_value" =>
        LET present == Present(resolved.key, resolved.context)
            bare == Len(resolved.context.scopes) + 1
        IN  /\ (present = {} /\ resolved.default # NoValue) =>
                  /\ resolved.result = Return(resolved.default)
                  /\ resolved.key \in DOMAIN values
                  /\ values[resolved.key] = resolved.default
            /\ present = {bare} =>
                  /\ resolved.result = Return(resolved.context.values[resolved.key])
                  /\ values = resolved.context.values

\* the registered callbacks in the order an invocation takes them
InvocationOrder ==
    IF delegate.reverse THEN Reverse(delegate.callbacks) ELSE delegate.callbacks

\* C24: with continue_on_error every registered callback is invoked, the
\* exception of a callback that raises is its entry in the results list,
\* the callbacks after it are still invoked, and the call does not raise.
C24_ContinueOnError ==
    (delegate.continue_on_error /\ invocation.called) =>
        /\ ~invocation.raised
        /\ Len(invocation.invoked) = Len(delegate.callbacks)
        /\ {invocation.invoked[i] : i \in DOMAIN invocation.invoked} =
           {delegate.callbacks[i] : i \in DOMAIN delegate.callbacks}
        /\ DOMAIN invocation.results = DOMAIN invocation.invoked
        /\ \A i \in DOMAIN invocation.invoked :
              invocation.results[i] =
                  IF invocation.invoked[i] \in invocation.raising
                  THEN Raised(invocation.invoked[i])
                  ELSE Returned(invocation.invoked[i])

C24_Witness ==
    /\ delegate.continue_on_error
    /\ invocation.called
    /\ Len(invocation.invoked) = 3
    /\ invocation.raising = {invocation.invoked[2]}
    /\ invocation.results[2] = Raised(invocation.invoked[2])
    /\ invocation.results[3] = Returned(invocation.invoked[3])

\* C25: without continue_on_error the invocation stops at the first
\* callback that raises: no later callback is invoked and the call raises
\* with that exception as cause and a results list of one entry per
\* registered callback: the results so far, the exception, then None.
C25_AbortAtFirstError ==
    (~delegate.continue_on_error /\ invocation.called /\ invocation.raising # {}) =>
        LET order == InvocationOrder
            first == CHOOSE i \in DOMAIN order :
                        /\ order[i] \in invocation.raising
                        /\ \A m \in 1..(i - 1) : order[m] \notin invocation.raising
        IN  /\ invocation.raised
            /\ invocation.invoked = SubSeq(order, 1, first)
            /\ invocation.cause = Raised(order[first])
            /\ Len(invocation.results) = Len(delegate.callbacks)
            /\ \A i \in DOMAIN order :
                  invocation.results[i] =
                      IF i < first THEN Returned(order[i])
                      ELSE IF i = first THEN Raised(order[first])
                      ELSE PyNone

C25_Witness ==
    /\ ~delegate.continue_on_error
    /\ ~delegate.reverse
    /\ invocation.called
    /\ Len(delegate.callbacks) = 2
    /\ invocation.raising = {delegate.callbacks[1]}
    /\ invocation.results = <<Raised(delegate.callbacks[1]), PyNone>>
    /\ invocation.raised

\* the position of the last operation on a callback, 0 when there is none
LastOperation(callback) ==
    LET on == {k \in DOMAIN operations : operations[k].callback = callback}
    IN  IF on = {} THEN 0 ELSE CHOOSE k \in on : \A m \in on : m <= k

\* the callbacks added and not since removed
Live ==
    {callback \in 1..MaxCallbacks :
        /\ LastOperation(callback) > 0
        /\ operations[LastOperation(callback)].op = "add"}

NormalSteps(stage) ==
    LET normal == SelectSeq(blocks, LAMBDA b : /\ b.kind = "step"
                                               /\ b.within = stage
                                               /\ b.exit = "normal")
    IN  [i \in DOMAIN normal |-> normal[i].name]

\* the stages whose block exited normally, in the order opened, each with
\* its normally exited steps
NormalStages ==
    LET normal == SelectSeq(blocks, LAMBDA b : b.kind = "stage" /\ b.exit = "normal")
    IN  [i \in DOMAIN normal |-> [name |-> normal[i].name,
                                  steps |-> NormalSteps(normal[i].name)]]

\* C27: the builders hold exactly the children whose block exited normally,
\* in declaration order: a step or stage whose block an exception left is
\* not appended, the ones before and after it are, and the job built has
\* those stages.
C27_AppendedOnNormalExit ==
    /\ builder.stages = NormalStages
    /\ builder.stage # NoStage =>
          builder.stage.steps = NormalSteps(builder.stage.name)
    /\ builder.built => BuiltStages = NormalStages

C27_Witness ==
    /\ builder.built
    /\ \E s \in DOMAIN BuiltStages :
          /\ Len(BuiltStages[s].steps) = 2
          /\ \E x \in DOMAIN blocks :
                /\ blocks[x].kind = "step"
                /\ blocks[x].exit = "exception"
                /\ blocks[x].within = BuiltStages[s].name
                /\ BuiltStages[s].steps[1] < x
                /\ x < BuiltStages[s].steps[2]

\* a scope with the Conditional capability and a condition of its own
ExplicitlyConditioned(s) ==
    /\ IsConditionalScope(Scope(s)) /\ HasCapability(Scope(s))
    /\ (Scope(s).run_if # "None" \/ Scope(s).skip_if # "None")

\* the scope's own conditions let it run
ConditionsAllow(s) ==
    /\ Scope(s).run_if = "None" \/ Resolved(s, "run_if", Scope(s).run_if)
    /\ Scope(s).skip_if = "None" \/ ~Resolved(s, "skip_if", Scope(s).skip_if)

\* C28: the default "job has failures" condition is never evaluated for a
\* scope with a run_if or skip_if of its own; such a scope is entered if and
\* only if its own conditions allow it, errors recorded or not, while a
\* Conditional scope without conditions is skipped once an error is recorded.
C28_ExplicitConditionsOnly ==
    \A k \in DOMAIN events :
        LET s == events[k].scope
        IN  /\ events[k].ev = "job_failing" => ~ExplicitlyConditioned(s)
            /\ (events[k].ev \in {"skip_scope", "start_scope"} /\ ExplicitlyConditioned(s)) =>
                  ((events[k].ev = "start_scope") <=> ConditionsAllow(s))
            /\ (events[k].ev \in {"skip_scope", "start_scope"} /\ DefaultConditioned(s)) =>
                  ((events[k].ev = "skip_scope") <=>
                      \E m \in 1..(k - 1) : events[m].ev = "error")

C28_Witness ==
    \E s \in {x \in ScopeIds : ExplicitlyConditioned(x) /\ Has("action", x)} :
       \E q \in {x \in ScopeIds : DefaultConditioned(x)} :
          \E m \in {x \in DOMAIN events :
                       events[x].ev = "start_scope" /\ events[x].scope = s} :
             \E k \in 1..(m - 1) :
                /\ events[k].ev = "error"
                /\ \E n \in (k + 1)..Len(events) :
                      events[n].ev = "skip_scope" /\ events[n].scope = q

\* the invocations of the teardown callable of t
TeardownsOf(t) == {k \in DOMAIN events : events[k].ev = "teardown" /\ events[k].scope = t}

\* a scope that is no group, has a teardown callable and was entered
EnteredLeaf(t) ==
    /\ ~IsGroupScope(Scope(t))
    /\ IsTeardownScope(Scope(t))
    /\ Scope(t).teardown # "None"
    /\ Has("start_scope", t)

\* C29: when a run has ended, the teardown callable of a leaf that was
\* entered (its action succeeded, failed or was absent) has been invoked once
\* for the leaf itself and once for each enclosing group, 1 + (number of
\* enclosing groups) times in all, own teardown first and then the groups
\* from the innermost outwards; and each invocation is made with the scope it
\* is made for as the current scope.  This is so in every run that ends
\* without a fatal error, and the finally blocks of _run_scope make it so for
\* the leaves entered before a fatal error as well.
C29_TeardownPerEnclosingScope ==
    /\ [](\A t \in ScopeIds :
            (Done /\ EnteredLeaf(t)) =>
               /\ Cardinality(TeardownsOf(t)) = 1 + Cardinality(Ancestors(t))
               /\ \A g \in Ancestors(t) \cup {t} :
                     Cardinality({k \in TeardownsOf(t) : events[k].under = g}) = 1
               /\ \A i, m \in TeardownsOf(t) :
                     i < m => events[i].under \in Descendants(events[m].under))
    /\ [][\A k \in Added :
             events'[k].ev = "teardown" =>
                /\ state_stack # <<>>
                /\ state_stack[Len(state_stack)] = events'[k].under
                /\ scope_stack # <<>>
                /\ scope_stack[Len(scope_stack)] = events'[k].under]_vars

C29_Witness ==
    /\ Done
    /\ outcome # "fatal"
    /\ \E t \in ScopeIds :
          /\ EnteredLeaf(t)
          /\ Cardinality(Ancestors(t)) = 2
          /\ \E k \in DOMAIN events :
                events[k].ev = "action" /\ events[k].scope = t /\ events[k].err # 0
          /\ Cardinality(TeardownsOf(t)) = 3

\* the events at which an exception that ends the run was first raised
FatalRaises ==
    {k \in DOMAIN events :
        events[k].ev \in {"unknown_scope", "start_scope_raised", "finish_scope_raised"}}

\* the scopes that were entered
EnteredScopes == {s \in ScopeIds : Has("start_scope", s)}

\* C30: when run ends with a fatal error that came out of a group's child
\* loop, every entered group above the point of the error has made its
\* teardown pass after the error was raised, for each of its descendants that
\* ran (a teardown invocation with the group as current scope); finish_scope
\* was emitted once for every entered scope, after its start_scope; and the
\* state stack of the context and the scope stack of the status tracker are
\* both empty.
C30_FatalStillUnwinds ==
    (outcome = "fatal") =>
       /\ FatalRaises # {}
       /\ state_stack = <<>>
       /\ scope_stack = <<>>
       /\ \A s \in EnteredScopes :
             \E i, m \in DOMAIN events :
                /\ i < m
                /\ events[i].ev = "start_scope" /\ events[i].scope = s
                /\ events[m].ev = "finish_scope" /\ events[m].scope = s
                /\ \A n \in DOMAIN events :
                      (events[n].ev = "finish_scope" /\ events[n].scope = s) => n = m
       /\ \A k \in FatalRaises :
             \A g \in Ancestors(events[k].scope) \cap EnteredScopes :
                \A t \in Descendants(g) :
                   EnteredLeaf(t) =>
                      \E m \in TeardownsOf(t) : m > k /\ events[m].under = g

C30_Witness ==
    /\ outcome = "fatal"
    /\ state_stack = <<>> /\ scope_stack = <<>>
    /\ \E k \in FatalRaises, t \in ScopeIds :
          /\ events[k].ev = "unknown_scope"
          /\ Cardinality(Ancestors(events[k].scope) \cap EnteredScopes) = 2
          /\ EnteredLeaf(t)
          /\ \A g \in Ancestors(events[k].scope) :
                /\ t \in Descendants(g)
                /\ \E m \in TeardownsOf(t) : m > k /\ events[m].under = g
                /\ Has("finish_scope", g)

\* no action raised and no exception ended the run
NothingFailed ==
    /\ FatalRaises = {}
    /\ \A k \in DOMAIN events : events[k].ev = "action" => events[k].err = 0

\* C31: skipping a scope, whichever condition decided it, records no error
\* and changes no status but that of the skipped scope, which becomes
\* SKIPPED; a run in which no action fails returns normally with no error
\* recorded and no scope FAILING or FAILED, skipped scopes or not; and a scope
\* with the default condition that is reached while no error is recorded is
\* entered, whatever was skipped before it.
C31_SkipIsNoFailure ==
    /\ [][\A k \in Added :
             events'[k].ev = "skip_scope" =>
                /\ errors' = errors
                /\ raised' = raised
                /\ statuses' = [statuses EXCEPT ![events'[k].scope] = "SKIPPED"]]_vars
    /\ [](\A s \in ScopeIds : statuses[s] \in {"FAILING", "FAILED"} => errors # <<>>)
    /\ []((Done /\ NothingFailed) =>
             /\ outcome = "returned"
             /\ errors = <<>>
             /\ \A s \in ScopeIds : statuses[s] \in {"PASSED", "SKIPPED", "UNKNOWN"})
    /\ [](\A m \in DOMAIN events :
             (/\ events[m].ev \in {"skip_scope", "start_scope"}
              /\ DefaultConditioned(events[m].scope)
              /\ \A k \in 1..(m - 1) : events[k].ev # "error") =>
                events[m].ev = "start_scope")

C31_Witness ==
    /\ outcome = "returned"
    /\ NothingFailed
    /\ \E k \in DOMAIN events :
          /\ events[k].ev = "skip_scope"
          /\ \E m \in (k + 1)..Len(events) :
                /\ events[m].ev = "start_scope"
                /\ DefaultConditioned(events[m].scope)
                /\ Has("action", events[m].scope)
                /\ statuses[events[m].scope] = "PASSED"

\* C32: context_value(key, default=X) leaves the values as they were
\* whenever one of the probed keys, scoped or bare, is present; it writes
\* only when none of them is present, and then only the bare key.
C32_WritesOnlyWhenNonePresent ==
    resolved.op = "context_value" =>
        LET before == resolved.context.values
            present == Present(resolved.key, resolved.context)
        IN  /\ present # {} => values = before
            /\ values # before =>
                  /\ present = {}
                  /\ resolved.default # NoValue
                  /\ DOMAIN values = DOMAIN before \cup {resolved.key}
                  /\ \A k \in DOMAIN before : values[k] = before[k]

\* the error(...) calls made so far
Recorded == {k \in DOMAIN events : events[k].ev = "error"}

\* the first error recorded under the scope path events[k] was recorded under
FirstOnPath(k) ==
    CHOOSE i \in Recorded :
        /\ events[i].scope = events[k].scope
        /\ \A m \in Recorded : events[m].scope = events[k].scope => i <= m

\* by first error of the path, then by recording order
ReportedBefore(i, k) ==
    \/ FirstOnPath(i) < FirstOnPath(k)
    \/ FirstOnPath(i) = FirstOnPath(k) /\ i < k

\* C33: when run raises its aggregate exception, the lines of its message
\* are the recorded errors, each of them once, ordered by scope path in the
\* order in which each path recorded its first error and within one path in
\* recording order.
C33_AggregateMessage ==
    outcome = "aggregate" =>
       /\ Len(message) = Cardinality(Recorded)
       /\ \A k \in Recorded :
             message[1 + Cardinality({i \in Recorded : ReportedBefore(i, k)})]
                = events[k].err

\* a message whose order is not the order of recording
C33_Witness ==
    /\ outcome = "aggregate"
    /\ \E i, k \in DOMAIN message : i < k /\ message[i] > message[k]
    /\ \E i, k \in Recorded : i < k /\ events[i].scope # events[k].scope

\* the status changes JobScopeStatuses makes to one scope
StatusChanges ==
    {<<"UNKNOWN", "RUNNING">>, <<"UNKNOWN", "SKIPPED">>, <<"RUNNING", "FAILING">>,
     <<"RUNNING", "PASSED">>, <<"RUNNING", "FAILED">>, <<"FAILING", "FAILED">>}

\* C34: over a tree in which every scope appears once, the status of a
\* scope changes only along UNKNOWN->RUNNING, UNKNOWN->SKIPPED,
\* RUNNING->FAILING, RUNNING->PASSED, RUNNING->FAILED and FAILING->FAILED;
\* a step that records an error changes the status of the innermost open
\* scope only; and a scope that is open below the innermost one is RUNNING
\* unless an error was recorded while it was the innermost itself.
C34_StatusChanges ==
    /\ [][\A s \in ScopeIds :
             statuses'[s] # statuses[s] =>
                <<statuses[s], statuses'[s]>> \in StatusChanges]_vars
    /\ [][errors' # errors =>
             /\ Innermost # 0 => statuses'[Innermost] \in {"FAILING", "FAILED"}
             /\ \A s \in ScopeIds \ {Innermost} : statuses'[s] = statuses[s]]_vars
    /\ [](\A n \in DOMAIN scope_stack :
             /\ statuses[scope_stack[n]] \in {"RUNNING", "FAILING"}
             /\ statuses[scope_stack[n]] = "FAILING" =>
                   \E k \in DOMAIN events :
                      events[k].ev = "error" /\ events[k].scope = scope_stack[n])

\* an error has just been recorded three scopes deep: the innermost scope
\* is FAILING and the two around it are RUNNING
C34_Witness ==
    /\ Len(scope_stack) = 3
    /\ statuses[scope_stack[3]] = "FAILING"
    /\ statuses[scope_stack[2]] = "RUNNING"
    /\ statuses[scope_stack[1]] = "RUNNING"
    /\ errors # <<>>

\* the scopes whose skip_scope was logged
SkippedScopes == {s \in ScopeIds : Has("skip_scope", s)}

\* C36: when run has returned normally or raised its aggregate exception,
\* both stacks are empty and no scope is RUNNING or FAILING: a scope is PASSED
\* or FAILED if and only if it was entered, SKIPPED if and only if it was
\* skipped, and UNKNOWN if and only if it was never reached, which is the
\* case exactly for the descendants of a skipped group.
C36_FinalStatuses ==
    outcome \in {"returned", "aggregate"} =>
       /\ state_stack = <<>>
       /\ scope_stack = <<>>
       /\ \A s \in ScopeIds :
             /\ statuses[s] \notin {"RUNNING", "FAILING"}
             /\ statuses[s] \in {"PASSED", "FAILED"} <=> s \in EnteredScopes
             /\ statuses[s] = "SKIPPED" <=> s \in SkippedScopes
             /\ statuses[s] = "UNKNOWN" <=>
                   \E g \in Ancestors(s) : g \in SkippedScopes
             /\ statuses[s] = "FAILED" <=> GetErrors(errors, s) # <<>>

\* a finished run with a scope of each final status
C36_Witness ==
    /\ outcome = "aggregate"
    /\ \E s, t, u, v \in ScopeIds :
          /\ statuses[s] = "PASSED" /\ s \in EnteredScopes
          /\ statuses[t] = "FAILED" /\ t \in EnteredScopes
          /\ statuses[u] = "SKIPPED" /\ IsGroupScope(Scope(u))
          /\ statuses[v] = "UNKNOWN" /\ u \in Ancestors(v)

\* C37: a scope that has finished PASSED or FAILED keeps that status for
\* the rest of the run, also when the runner reaches the same scope object
\* again while a skip condition for it holds: a scope that ran is never
\* recorded as SKIPPED afterwards.
C37_FinishedStatusKept ==
    [][\A s \in ScopeIds :
          statuses[s] \in {"PASSED", "FAILED"} => statuses'[s] = statuses[s]]_vars

\* what the runner calls: actions, teardown callables and conditions
Callbacks == {"action", "teardown", "run_if", "skip_if", "job_failing", "job_never"}

\* C35: whenever the runner invokes an action or a teardown callable or
\* evaluates a condition, the scope stack of the context (context.scopes) and
\* the scope stack of the status tracker hold the same scopes in the same
\* order, and the error recorded for an action that raises is filed under
\* exactly that path.
C35_StacksAgreeAtCallbacks ==
    [][\A k \in Added :
          events'[k].ev \in Callbacks =>
             /\ state_stack = scope_stack
             /\ (events'[k].ev = "action" /\ events'[k].err # 0) =>
                   \E n \in DOMAIN errors' :
                      /\ errors'[n].path = state_stack
                      /\ InSeq(events'[k].err, errors'[n].errs)
                      /\ \A m \in DOMAIN errors' :
                            InSeq(events'[k].err, errors'[m].errs) => m = n]_vars

\* an action has failed two scopes below the root and its error is filed
\* under the three open scopes
C35_Witness ==
    /\ Len(state_stack) = 3
    /\ state_stack = scope_stack
    /\ events # <<>>
    /\ events[Len(events)].ev \in {"action", "error"}
    /\ \E n \in DOMAIN errors : errors[n].path = state_stack

\* how often e is held in the errors of the context
Occurrences(e) ==
    Cardinality(UNION {{<<n, i>> : i \in {x \in DOMAIN errors[n].errs :
                                               errors[n].errs[x] = e}} :
                          n \in DOMAIN errors})

\* C38: an exception raised by an action is held exactly once in the errors
\* of the context, and is exactly one line of the aggregate message, also
\* when the action raised it inside a section, item or scope block of the
\* status collector.
C38_RecordedOnce ==
    \A k \in DOMAIN events :
        (events[k].ev = "action" /\ events[k].err # 0) =>
           /\ Occurrences(events[k].err) = 1
           /\ outcome = "aggregate" =>
                 Cardinality({i \in DOMAIN message : message[i] = events[k].err}) = 1

\* the events that log the evaluation of a condition
Decisions == {"run_if", "skip_if", "job_failing", "job_never"}

\* the scopes _run_scope was called for: their skip decision was logged
Reached == {s \in ScopeIds : Has("skip_scope", s) \/ Has("start_scope", s)}

\* C39: run over a finite tree terminates, by returning or raising; the
\* skip decision of a scope is taken when the scope is reached and never
\* again, a scope is skipped or entered at most once and never both, its
\* action is invoked at most once; and when run ends without a fatal error
\* every scope was either reached or lies below a skipped group.
C39_Terminates ==
    /\ <>Done
    /\ [][\A k \in Added :
             LET e == events'[k]
             IN  /\ e.ev \in Decisions =>
                       /\ \A m \in DOMAIN events :
                             ~(events[m].ev \in Decisions /\ events[m].scope = e.scope)
                       /\ \A m \in Added :
                             (events'[m].ev = e.ev /\ events'[m].scope = e.scope) => m = k
                 /\ e.ev \in {"skip_scope", "start_scope"} =>
                       /\ ~Has("skip_scope", e.scope)
                       /\ ~Has("start_scope", e.scope)
                       /\ \E m \in 1..(k - 1) :
                             events'[m].ev \in Decisions /\ events'[m].scope = e.scope
                 /\ e.ev = "action" => ~Has("action", e.scope)]_vars
    /\ []((Done /\ outcome # "fatal") =>
             \A s \in ScopeIds :
                (s \in Reached) <=> ~\E g \in Ancestors(s) : g \in SkippedScopes)

\* a run of the three stages that is over, with scopes entered and scopes
\* skipped
C39_Witness ==
    /\ Done
    /\ Cardinality(ScopeIds) = 10
    /\ Reached = ScopeIds
    /\ SkippedScopes # {}
    /\ EnteredScopes # {}

\* the scopes that are a group and have a teardown callable as well
TeardownGroups ==
    {g \in ScopeIds : /\ IsGroupScope(Scope(g)) /\ IsTeardownScope(Scope(g))
                      /\ Scope(g).teardown # "None"}

\* C40: the teardown callable of a scope that is both a group and a
\* teardown scope is never invoked, neither at its own exit nor in the
\* teardown pass of a group around it, and _run_teardown is never called for
\* it; every teardown invocation is for a scope that is no group.
C40_GroupTeardownNeverInvoked ==
    /\ \A k \in DOMAIN events :
          events[k].ev = "teardown" => ~IsGroupScope(Scope(events[k].scope))
    /\ \A g \in TeardownGroups :
          /\ ~Has("teardown", g)
          /\ \A k \in DOMAIN events :
                (events[k].scope = g /\ events[k].ev \in {"start_section", "detail"})
                   => FALSE
          /\ \A f \in DOMAIN frames : ~InSeq(g, frames[f].todo)

\* the run is over, a group with a teardown was entered and finished with
\* an error below it, and its children were torn down under it and under the
\* job
C40_Witness ==
    /\ Done
    /\ \E g \in TeardownGroups :
          /\ statuses[g] = "FAILED"
          /\ \E k, m \in DOMAIN events :
                /\ events[k].ev = "teardown" /\ events[k].under = g
                /\ events[m].ev = "teardown" /\ events[m].under = job.root
                /\ events[m].scope = events[k].scope
                /\ g \in {job.scopes[job.root].scopes[i] :
                              i \in DOMAIN job.scopes[job.root].scopes}

====
